---------------------------- MODULE Spec2Model ----------------------------
(***************************************************************************)
(* Gemini-Web2API: the account pool (internal/balancer), the HTTP          *)
(* handlers' use of it (internal/adapter), the reconciliation pass         *)
(* (cmd/server/main.go), the upstream response decoder                     *)
(* (adapter.parseGeminiResponse) and the Claude stream processor           *)
(* (internal/claude/streaming.go).                                         *)
(*                                                                         *)
(* The specifications share the variables; each leaves the other           *)
(* components' variables unchanged:                                        *)
(*   SpecPool       handlers calling Next() concurrently with writers      *)
(*   SpecSwap       handlers calling Next() during reconciliation passes   *)
(*   SpecReconcile  the startup pass and the watcher's passes              *)
(*   SpecDecode     parseGeminiResponse, one candidate per step            *)
(*   SpecFrames     parseGeminiResponse on a stream of growing frames      *)
(*   SpecPlaceholders  the same, on texts with image placeholders          *)
(*   SpecInline     the same, on texts with a thinking block inline        *)
(*   SpecIndexed    parseGeminiResponse, with each index's last candidate  *)
(*   SpecClaude     StreamProcessor.ProcessGeminiStream                    *)
(*   SpecClient     StreamGenerateContent called concurrently on a client  *)
(*   SpecChat       ChatCompletionHandler on one request                   *)
(*   SpecAnswers    ChatCompletionHandler and ClaudeMessagesHandler        *)
(*   SpecFinish     TransformResponse and MapFinishReason on a response    *)
(*   SpecEscape     the escape reversal applied to a fragment              *)
(*   SpecWire       the line scan of parseGeminiResponse on a wire body    *)
(*   SpecSize       sizeToAspectRatio on a size parameter                  *)
(*   SpecCount      CountTokensHandler on one request                      *)
(*   SpecWorkers    one startup pass with its per-account attempts         *)
(*   SpecWorkersFair  SpecWorkers with every goroutine scheduled           *)
(*   SpecClientSeq  StreamGenerateContent called by one goroutine          *)
(*   SpecClientInit Client.Init on a new client                            *)
(*   SpecPayload    BuildGeneratePayload on one call's arguments           *)
(*   SpecBothModes  both branches of ChatCompletionHandler on one body     *)
(*   SpecBodies     the response bodies of one request and their closing   *)
(***************************************************************************)
EXTENDS Integers, Sequences, FiniteSets, TLC

VARIABLES
    \* ---- balancer.AccountPool
    entries,        \* p.entries: sequence of AccountEntry
    index,          \* p.index (uint64; starts at 0, the wrap at 2^64 is out of reach)
    readers,        \* handlers holding p.mu.RLock
    mu,             \* the holder of p.mu.Lock and the locals of its ReplaceAccounts
    \* ---- HTTP handlers
    hs,             \* handler -> its position and locals
    served,         \* history: per entry slot, Next() results since the list last changed
    calls,          \* history: number of requests started
    writes,         \* history: number of Add/Clear/ReplaceAccounts calls made through the API
    \* ---- reconciliation (cmd/server/main.go)
    accountsEnv,    \* the ACCOUNTS environment variable: set or not, and its IDs
    envFile,        \* the .env file: whether it exists, its ACCOUNTS key and, per
                    \* account ID, its cookie pair or NoCred
    watcher,        \* watchEnvFile: "starting", "watching", "woken" (an event taken,
                    \* godotenv.Load not yet run), "reloaded" or "stopped"
    events,         \* fsnotify Write events not yet consumed by watchEnvFile
    edits,          \* history: number of .env writes by the user
    accountCookies, \* package variable accountCookies: account ID -> hash
    pass,           \* pass -> position and locals of its loadAccountsAsync
    passCount,      \* history: passes the watcher has started
    lastRead,       \* history: ID -> hash as read by the pass that returned last
    \* ---- adapter.parseGeminiResponse
    lastText, lastThoughts,
    dec,            \* scanner position and history of the decoder
    \* ---- claude.StreamProcessor
    sp,             \* StreamingState and StreamProcessor fields
    log,            \* the SSE events written
    cl,             \* position of ProcessGeminiStream and history
    \* ---- gemini.Client
    ReqID,          \* c.ReqID of one client, 0 until NewClient has built it
    gen,            \* caller -> position and locals of its StreamGenerateContent
    sent,           \* history: the client is built, its first ReqID, calls started,
                    \* the _reqid values sent, how the calls ended
    \* ---- adapter.ChatCompletionHandler, one request
    oa,             \* position and locals of the handler, and the response's status
    sse,            \* what the handler has written to the response as SSE
    \* ---- claude.TransformResponse and claude.MapFinishReason
    fin,            \* a decoded upstream response and what the two functions gave for it
    \* ---- adapter.ClaudeMessagesHandler, one request
    cm,             \* position and locals of the handler, and the response's status
    \* ---- pure functions of the adapter, each applied to one input
    esc,            \* a string, its escaped form and what the escape reversal gave
    \* ---- adapter.parseGeminiResponse on the bytes of one response body
    wire,           \* the lines of the body, the scanner's position and the deltas passed on
    \* ---- adapter.sizeToAspectRatio
    img,            \* a size string and the aspect ratio returned for it
    \* ---- adapter.ClaudeCountTokensHandler, one request
    ct,             \* the request's messages, the status and input_tokens of the answer
    \* ---- gemini.Client.Init on one new client
    ini,            \* the landing page served, the error returned and the client's fields
    \* ---- gemini.BuildGeneratePayload, one call
    pay,            \* the arguments and the f.req text returned
    \* ---- adapter.ChatCompletionHandler, both branches on one upstream body
    cmp,            \* the body's lines, each branch's scanner and what it answered
    \* ---- the response bodies of one request of any handler
    bod             \* the handler's position, its deferred calls and every body's closes

poolVars   == <<entries, index, readers, mu>>
handlerVars == <<hs, served, calls, writes>>
reconVars  == <<accountsEnv, envFile, watcher, events, edits, accountCookies, pass, passCount,
               lastRead>>
decodeVars == <<lastText, lastThoughts, dec>>
claudeVars == <<sp, log, cl>>
clientVars == <<ReqID, gen, sent>>
\* the components that the pool, the passes, the decoder and the Claude stream
\* processor leave alone
openaiVars == <<oa, sse>>
finVars    == <<fin>>
messagesVars == <<cm>>
lastVars   == <<ini, pay, cmp, bod>>
helperVars == <<esc, wire, img, ct, lastVars>>
laterVars  == <<clientVars, openaiVars, finVars, messagesVars, helperVars>>
firstVars  == <<poolVars, handlerVars, reconVars, decodeVars, claudeVars>>
\* what the pure functions and the byte-level decoder leave alone
otherVars  == <<firstVars, clientVars, openaiVars, finVars, messagesVars, lastVars>>
\* what the components of lastVars leave alone besides one another
priorVars  == <<firstVars, clientVars, openaiVars, finVars, messagesVars, esc, wire, img, ct>>
iniOthers  == <<priorVars, pay, cmp, bod>>
payOthers  == <<priorVars, ini, cmp, bod>>
cmpOthers  == <<priorVars, ini, pay, bod>>
bodOthers  == <<priorVars, ini, pay, cmp>>
vars == <<firstVars, laterVars>>

(***************************************************************************)
(* Bounds                                                                  *)
(***************************************************************************)
MaxAccts == 2       \* longest entry list of the pool
MaxListed == 1      \* longest ACCOUNTS list
MaxCalls == 3       \* requests started
MaxWrites == 2      \* pool writes through the API (SpecPool)
MaxImages == 2      \* largest n of an image request that is modelled
MaxEdits == 1       \* .env writes by the user
MaxLen == 2         \* longest text or thought of a candidate
MaxSteps == 3       \* candidates decoded
MaxCands == 2       \* candidates per frame
MaxLines == 3       \* lines of a Claude stream
MaxParts == 2       \* parts in one line of a Claude stream
MaxFinalize == 2    \* invocations of finalize
MaxGenCalls == 2    \* calls of StreamGenerateContent on the client
MaxFinParts == 2    \* parts of the first candidate of a decoded response
MaxEscLen == 3      \* longest string given to the escape reversal
MaxPad == 4         \* most items before the candidates in a frame's payload
MaxCtMsgs == 2      \* messages of a count_tokens request
MaxCtLen == 5       \* longest string content of such a message
MaxFields == 2      \* quoted fields in the landing page served to Client.Init
MaxFiles == 2       \* files attached to one BuildGeneratePayload call
MaxBodyLines == 2   \* longest upstream body read by both branches, in lines

(***************************************************************************)
(* Helpers                                                                 *)
(***************************************************************************)

Range(s) == {s[i] : i \in 1..Len(s)}

SeqsUpTo(S, n) == UNION {[1..k -> S] : k \in 0..n}

RECURSIVE SumOver(_, _)
SumOver(f, S) ==
    IF S = {} THEN 0
    ELSE LET x == CHOOSE y \in S : TRUE IN f[x] + SumOver(f, S \ {x})

AccountIDs == {"", "a"}

EmptyMap == [x \in {} |-> 0]

(***************************************************************************)
(* Credentials.  A cookie set is its two values; strings are sequences of  *)
(* characters.                                                             *)
(***************************************************************************)
Creds == { [psid |-> <<"s">>, psidts |-> <<"t">>],
           [psid |-> <<"s">>, psidts |-> <<"u">>] }

\* No PSID for the account in the file (cookie.go 172: psid == "")
NoCred == [psid |-> <<>>, psidts |-> <<>>]

\* main.go cookieHash: cookies["__Secure-1PSID"] + "|" + cookies["__Secure-1PSIDTS"]
cookieHash(cookies) == cookies.psid \o <<"|">> \o cookies.psidts

\* gemini.NewClient (package gemini, lines 39-71): a *gemini.Client before Init.  Its identity
\* is the goroutine that built it: the pass and the position of its account in
\* that pass's list.  SNlM0e: the token is set, which Init does (line 96) on the
\* way to returning nil.
NewClient(n, i, id, c) ==
    [pass |-> n, idx |-> i, acct |-> id, cookies |-> c, SNlM0e |-> FALSE]

\* A *gemini.Client that completed Init (package gemini, lines 73-124)
MkClient(n, i, id, c) == [NewClient(n, i, id, c) EXCEPT !.SNlM0e = TRUE]

(***************************************************************************)
(* balancer.AccountPool                                                    *)
(***************************************************************************)
\* The nil *gemini.Client
Nil == [pass |-> -1, idx |-> 0, acct |-> "", cookies |-> NoCred, SNlM0e |-> FALSE]

AccountEntry(client, accountID) == [Client |-> client, AccountID |-> accountID]

\* A faulty cursor that advances by two (C1 does not hold of it)
AddUint64Twice(i) == i + 2
\* Next(), line 48: idx := atomic.AddUint64(&p.index, 1) - 1
AddUint64(i) == i + 1

\* A faulty index that takes the cursor as it is (C38 does not hold of it)
SlotOfCursor(idx, n) == idx + 1
\* Next(), line 49: p.entries[idx % uint64(len(p.entries))], 1-based here
SlotOf(idx, n) == (idx % n) + 1

\* ReplaceAccounts, lines 63-66: the last entry of an ID wins
OldEntries(ents) ==
    [id \in {ents[i].AccountID : i \in 1..Len(ents)} |->
        LET last == CHOOSE i \in 1..Len(ents) :
                        /\ ents[i].AccountID = id
                        /\ \A j \in (i+1)..Len(ents) : ents[j].AccountID # id
        IN ents[last].Client]

\* ReplaceAccounts, lines 68-81
RECURSIVE ReplaceAccounts(_, _, _)
ReplaceAccounts(ents, newAccountIDs, changedClients) ==
    IF newAccountIDs = <<>> THEN <<>>
    ELSE LET accountID == Head(newAccountIDs)
             rest == ReplaceAccounts(ents, Tail(newAccountIDs), changedClients)
             old == OldEntries(ents)
         IN IF accountID \in DOMAIN changedClients
               THEN <<AccountEntry(changedClients[accountID], accountID)>> \o rest
            ELSE IF accountID \in DOMAIN old
               THEN <<AccountEntry(old[accountID], accountID)>> \o rest
            ELSE rest

ZeroServed(ents) == [i \in 1..Len(ents) |-> 0]

(***************************************************************************)
(* Handlers: ChatCompletionHandler, ImageGenerationHandler,                *)
(* ClaudeMessagesHandler.  Each starts with pool.Next().                   *)
(***************************************************************************)
Handlers == {"h1", "h2"}
Kinds == {"chat", "image", "claude"}

\* client, accountID: what Next() returned, until the handler returns; status,
\* errorField, upstream: the response and the number of upstream calls made
IdleHandler ==
    [pc |-> "idle", kind |-> "none", client |-> Nil, accountID |-> "",
     status |-> 0, errorField |-> FALSE, upstream |-> 0]

\* p.mu while no ReplaceAccounts is inside it.  writer: the pass holding
\* p.mu.Lock; rest: the IDs its loop (line 69) has yet to visit; oldEntries: its
\* local map (lines 63-66); before, after: history, the list when it took the lock
\* and the list its call is to leave.
FreeMu ==
    [writer |-> "", rest |-> <<>>, oldEntries |-> EmptyMap,
     before |-> <<>>, after |-> <<>>]

\* A faulty read lock that does not wait for the writer (C11 does not hold of it)
MayRLockAlways(m) == TRUE
\* line 43: p.mu.RLock() returns only while no writer holds p.mu
MayRLock(m) == m.writer = ""

\* A request arrives at a handler that is serving none, and pool.Next() reaches
\* line 43: p.mu.RLock().  Writers hold p.mu.Lock() for their whole body, so a
\* reader enters only between writers.
NextRLock(h, kind) ==
    /\ hs[h].pc \in {"idle", "done"}
    /\ calls < MaxCalls
    /\ MayRLock(mu)
    /\ readers' = readers \cup {h}
    /\ hs' = [hs EXCEPT ![h] = [IdleHandler EXCEPT !.pc = "locked", !.kind = kind]]
    /\ calls' = calls + 1
    /\ UNCHANGED <<entries, index, mu, served, writes>>
    /\ UNCHANGED <<reconVars, decodeVars, claudeVars, laterVars>>

\* pool.Next(), lines 45-50
NextSelect(h) ==
    /\ hs[h].pc = "locked"
    /\ IF Len(entries) = 0
          THEN /\ hs' = [hs EXCEPT ![h].pc = "selected", ![h].client = Nil,
                                   ![h].accountID = ""]
               /\ UNCHANGED <<index, served>>
          ELSE LET idx == AddUint64(index) - 1
                   slot == SlotOf(idx, Len(entries))
               IN /\ index' = AddUint64(index)
                  /\ hs' = [hs EXCEPT ![h].pc = "selected",
                                      ![h].client = entries[slot].Client,
                                      ![h].accountID = entries[slot].AccountID]
                  /\ served' = [served EXCEPT ![slot] = @ + 1]
    /\ UNCHANGED <<entries, readers, mu, calls, writes>>
    /\ UNCHANGED <<reconVars, decodeVars, claudeVars, laterVars>>

\* pool.Next(), line 44: defer p.mu.RUnlock()
NextRUnlock(h) ==
    /\ hs[h].pc = "selected"
    /\ readers' = readers \ {h}
    /\ hs' = [hs EXCEPT ![h].pc = "returned"]
    /\ UNCHANGED <<entries, index, mu, served, calls, writes>>
    /\ UNCHANGED <<reconVars, decodeVars, claudeVars, laterVars>>

\* What the handler answers and how many upstream calls it made
Answer(r, status, upstream) ==
    [IdleHandler EXCEPT !.pc = "done", !.kind = r.kind, !.status = status,
                        !.errorField = (status # 200), !.upstream = upstream]

\* A faulty handler that goes on with the nil client (C2 does not hold of it)
NoClientAnswerOK(r) == Answer(r, 200, 1)
\* handler.go 130-133, image_handler.go 54-57 and 348-357: if client == nil
NoClientAnswer(r) == Answer(r, 503, 0)

HandlerNoClient(h) ==
    /\ hs[h].pc = "returned"
    /\ hs[h].client = Nil
    /\ hs' = [hs EXCEPT ![h] = NoClientAnswer(hs[h])]
    /\ UNCHANGED <<poolVars, served, calls, writes>>
    /\ UNCHANGED <<reconVars, decodeVars, claudeVars, laterVars>>

\* handler.go 137-141, image_handler.go 61-70 and 361-382: the body does not bind
\* (or, image: no prompt; Claude: no messages)
HandlerBadBody(h) ==
    /\ hs[h].pc = "returned"
    /\ hs[h].client # Nil
    /\ hs' = [hs EXCEPT ![h] = Answer(hs[h], 400, 0)]
    /\ UNCHANGED <<poolVars, served, calls, writes>>
    /\ UNCHANGED <<reconVars, decodeVars, claudeVars, laterVars>>

\* The body binds and client.StreamGenerateContent is called n times: once, an
\* error answering 500 (handler.go 217-222, image_handler.go 396-407); or, for
\* images, once per requested image, 500 only when no call produced an image
\* (image_handler.go 72-77, 106-137).  good: the call, or one of the image calls,
\* succeeded.
HandlerServe(h, n, good) ==
    /\ hs[h].pc = "returned"
    /\ hs[h].client # Nil
    /\ n \in 1..MaxImages
    /\ hs[h].kind = "image" \/ n = 1
    /\ hs' = [hs EXCEPT ![h] = Answer(hs[h], IF good THEN 200 ELSE 500, n)]
    /\ UNCHANGED <<poolVars, served, calls, writes>>
    /\ UNCHANGED <<reconVars, decodeVars, claudeVars, laterVars>>

(***************************************************************************)
(* The pool's writers, called through the API.  Each holds p.mu.Lock()     *)
(* from entry to return, so it runs when no reader is inside Next().       *)
(***************************************************************************)
ApiCred == [psid |-> <<"s">>, psidts |-> <<"t">>]
\* The initialized client a caller of the API holds for an account
ApiClient(id) == MkClient(0, 1, id, ApiCred)

\* balancer.go 26-31
Clear ==
    /\ readers = {}
    /\ writes < MaxWrites
    /\ entries' = <<>>
    /\ index' = 0
    /\ served' = ZeroServed(<<>>)
    /\ writes' = writes + 1
    /\ UNCHANGED <<readers, mu, hs, calls>>
    /\ UNCHANGED <<reconVars, decodeVars, claudeVars, laterVars>>

\* balancer.go 33-40
Add(client, accountID) ==
    /\ readers = {}
    /\ writes < MaxWrites
    /\ Len(entries) < MaxAccts
    /\ entries' = Append(entries, AccountEntry(client, accountID))
    /\ served' = ZeroServed(entries')
    /\ writes' = writes + 1
    /\ UNCHANGED <<index, readers, mu, hs, calls>>
    /\ UNCHANGED <<reconVars, decodeVars, claudeVars, laterVars>>

\* balancer.go 59-82, called with a non-empty ID list as loadAccountsAsync does
ApiReplaceAccounts(newAccountIDs, changedClients) ==
    /\ readers = {}
    /\ writes < MaxWrites
    /\ entries' = ReplaceAccounts(entries, newAccountIDs, changedClients)
    /\ served' = ZeroServed(entries')
    /\ writes' = writes + 1
    /\ UNCHANGED <<index, readers, mu, hs, calls>>
    /\ UNCHANGED <<reconVars, decodeVars, claudeVars, laterVars>>

IDLists == SeqsUpTo(AccountIDs, MaxAccts) \ {<<>>}

ChangedMaps(ids) == {[id \in S |-> ApiClient(id)] : S \in SUBSET Range(ids)}

(***************************************************************************)
(* The credential source: browser.LoadMultiCookies over the .env file      *)
(***************************************************************************)
SuffixIDs == AccountIDs \ {""}

\* An environment variable, or a key of .env: whether it is there, and the IDs
\* its value lists.  A variable that is set to the empty string has no IDs.
Unset == [set |-> FALSE, ids |-> <<>>]
SetTo(ids) == [set |-> TRUE, ids |-> ids]

\* ACCOUNTS in the environment the process is started in: unset, or a list of up
\* to n suffixes, repetitions kept
EnvValues(n) == {Unset} \cup {SetTo(ids) : ids \in SeqsUpTo(SuffixIDs, n) \ {<<>>}}
AccountsValues == EnvValues(MaxListed)

\* cookie.go 211-232: the IDs of the variable's value, [""] when there is none
ParseAccountIDs(v) == IF v.ids = <<>> THEN <<"">> ELSE v.ids

CredMaps == [AccountIDs -> Creds \cup {NoCred}]

\* No .env file: os.ReadFile fails (cookie.go 104-105, 235)
AbsentFile == [exists |-> FALSE, accounts |-> Unset, cred |-> [id \in AccountIDs |-> NoCred]]

\* cookie.go 201-209: the file createEnvTemplate writes, with the keys of the
\* default account and ACCOUNTS, each without a value
createEnvTemplate ==
    [exists |-> TRUE, accounts |-> SetTo(<<>>), cred |-> [id \in AccountIDs |-> NoCred]]

\* The .env files a user writes: with or without the ACCOUNTS key
WrittenFiles ==
    {createEnvTemplate}
      \cup {[exists |-> TRUE, accounts |-> a, cred |-> c] :
                a \in {Unset} \cup {SetTo(<<id>>) : id \in SuffixIDs}, c \in CredMaps}
FileValues == {AbsentFile} \cup WrittenFiles

\* godotenv.Load() (main.go 37 and 230): a key of .env becomes an environment
\* variable when the environment has no variable of that name
GodotenvLoad(env, file) ==
    IF ~env.set /\ file.exists /\ file.accounts.set THEN file.accounts ELSE env

\* cookie.go 234-287: saveToEnv, given the file as its os.ReadFile found it;
\* the two cookies are set, every other line is kept
saveToEnv(read, cookies) == [read EXCEPT !.exists = TRUE, !.cred[""] = cookies]

Perms(S) == {q \in [1..Cardinality(S) -> S] : Range(q) = S}

RECURSIVE Keep(_, _)
Keep(ids, cred) ==
    IF ids = <<>> THEN <<>>
    ELSE IF cred[Head(ids)] = NoCred THEN Keep(Tail(ids), cred)
    ELSE <<Head(ids)>> \o Keep(Tail(ids), cred)

\* cookie.go 98-199, from os.ReadFile (104) on.  The possible outcomes: the
\* cookie maps with their IDs ("loaded"), the error of line 195 ("err"), or the
\* browser lookup of line 106 (no file: "absent") or 146 (no account: "empty").
\* Detection ranges over a Go map, so the suffixed accounts come in any order
\* (131-142); a listed account without a PSID is skipped (172-179), and with
\* none left the call fails (194-196).  The files hold no suffixed PSID key
\* without a value, so detection finds the accounts that have one.
LoadMultiCookies(accountIDs, file) ==
    LET detect == accountIDs = <<>> \/ accountIDs = <<"">>
        detected == {(IF file.cred[""] = NoCred THEN <<>> ELSE <<"">>) \o q :
                        q \in Perms({id \in SuffixIDs : file.cred[id] # NoCred})}
        listed == {Keep(accountIDs, file.cred)}
        idLists == IF detect THEN detected ELSE listed
        loaded == {[next |-> "loaded", ids |-> ids,
                    cookies |-> [i \in 1..Len(ids) |-> file.cred[ids[i]]]] :
                        ids \in idLists \ {<<>>}}
        failed == IF ~detect /\ <<>> \in idLists
                     THEN {[next |-> "err", ids |-> <<>>, cookies |-> <<>>]}
                     ELSE {}
        browser == IF detect /\ <<>> \in idLists
                      THEN {[next |-> "empty", ids |-> <<>>, cookies |-> <<>>]}
                      ELSE {}
    IN IF ~file.exists THEN {[next |-> "absent", ids |-> <<>>, cookies |-> <<>>]}
       ELSE loaded \cup failed \cup browser

(***************************************************************************)
(* main.go loadAccountsAsync, run by main (line 43) and by watchEnvFile    *)
(* (line 231) in two goroutines with no lock between them.                 *)
(***************************************************************************)
Passes == {"startup", "watch"}

maxRetries == 3

\* The locals of one run of loadAccountsAsync, and what is recorded of it.  The
\* locals are dropped when the function returns (pc = "done"); ended and same
\* stay as the record of the run.
IdlePass ==
    [pc |-> "idle", no |-> 0,
     accounts |-> <<>>,     \* line 89: what ParseAccountIDs returned
     branch |-> "",         \* the browser lookup LoadMultiCookies is at, if any
     read |-> AbsentFile,   \* the file as the os.ReadFile of saveToEnv found it
     accountIDs |-> <<>>, allCookies |-> <<>>,
     oldCookies |-> EmptyMap, newCookies |-> EmptyMap, toInit |-> {},
     finished |-> {}, results |-> <<>>,
     failed |-> {},         \* history: workers whose every attempt failed
     poolBefore |-> <<>>,   \* history: the pool when the pass read accountCookies
     poolAfter |-> <<>>,    \* history: the pool as its ReplaceAccounts left it
     tries |-> <<>>,        \* history: per worker, how its attempts ended, in order
     sending |-> {},        \* workers at the send on results (line 161)
     ended |-> "",          \* history: "error", "unchanged" (line 121) or "stored"
     gaveUp |-> EmptyMap,   \* history: ID -> hash of the accounts whose every attempt failed
     same |-> FALSE]        \* history: it read what the pass before it had read

\* the accounts of a pass that reached line 199 with no client for them
GaveUp(r, how) ==
    IF how # "stored" THEN EmptyMap
    ELSE [id \in {r.accountIDs[i] : i \in r.failed}
                    \ {r.results[k].accountID : k \in 1..Len(r.results)}
            |-> r.newCookies[id]]

Returned(r, how) ==
    [IdlePass EXCEPT !.pc = "done", !.ended = how, !.same = r.same,
                     !.gaveUp = GaveUp(r, how)]

\* lines 102-105: newCookies[accountIDs[i]] = cookieHash(cookies), in list order
NewCookies(accountIDs, allCookies) ==
    [id \in Range(accountIDs) |->
        LET last == CHOOSE i \in 1..Len(accountIDs) :
                        /\ accountIDs[i] = id
                        /\ \A j \in (i+1)..Len(accountIDs) : accountIDs[j] # id
        IN cookieHash(allCookies[last])]

\* A faulty test that initializes every listed account (C8 does not hold of it)
NeedsInitAlways(oldCookies, newCookies, accountID) == TRUE
\* line 112: !existed || oldHash != newHash
NeedsInit(oldCookies, newCookies, accountID) ==
    \/ accountID \notin DOMAIN oldCookies
    \/ oldCookies[accountID] # newCookies[accountID]

\* lines 107-117
ToInit(accountIDs, oldCookies, newCookies) ==
    {i \in 1..Len(accountIDs) : NeedsInit(oldCookies, newCookies, accountIDs[i])}

\* lines 191-194: the results in channel order, a later one replacing an earlier
ChangedAccounts(results) ==
    [id \in {results[k].accountID : k \in 1..Len(results)} |->
        LET last == CHOOSE k \in 1..Len(results) :
                        /\ results[k].accountID = id
                        /\ \A j \in (k+1)..Len(results) : results[j].accountID # id
        IN results[last].client]

\* What fsnotify adds to watcher.Events for one write of .env
Notified == IF watcher \in {"watching", "woken", "reloaded"} THEN 1 ELSE 0

\* main.go 204-216: fsnotify.NewWatcher and watcher.Add(".env"), which fails
\* when there is no such file; watchEnvFile then returns
WatcherAdd ==
    /\ watcher = "starting"
    /\ watcher' = IF envFile.exists THEN "watching" ELSE "stopped"
    /\ UNCHANGED <<accountsEnv, envFile, events, edits, accountCookies, pass, passCount,
                   lastRead>>
    /\ UNCHANGED <<poolVars, handlerVars, decodeVars, claudeVars, laterVars>>

\* A .env write by the user, with new or with the same content: fsnotify reports
\* it to watchEnvFile when that is watching
EnvWrite(f) ==
    /\ edits < MaxEdits
    /\ f \in WrittenFiles
    /\ envFile' = f
    /\ events' = events + Notified
    /\ edits' = edits + 1
    /\ UNCHANGED <<accountsEnv, watcher, accountCookies, pass, passCount, lastRead>>
    /\ UNCHANGED <<poolVars, handlerVars, decodeVars, claudeVars, laterVars>>

\* main.go 222-229: watchEnvFile, back in its select after the pass it called,
\* if any, takes a Write event from watcher.Events and begins its sleep of
\* 200 ms, during which the other goroutines run
WatchReceive ==
    /\ watcher = "watching" /\ events > 0
    /\ pass["watch"].pc \in {"idle", "done"}
    /\ events' = events - 1
    /\ watcher' = "woken"
    /\ UNCHANGED <<accountsEnv, envFile, edits, accountCookies, pass, passCount, lastRead>>
    /\ UNCHANGED <<poolVars, handlerVars, decodeVars, claudeVars, laterVars>>

\* main.go 230: after the sleep, godotenv.Load() reads .env as it is then
WatchLoad ==
    /\ watcher = "woken"
    /\ accountsEnv' = GodotenvLoad(accountsEnv, envFile)
    /\ watcher' = "reloaded"
    /\ UNCHANGED <<envFile, events, edits, accountCookies, pass, passCount, lastRead>>
    /\ UNCHANGED <<poolVars, handlerVars, decodeVars, claudeVars, laterVars>>

\* main starts the pass (line 43), or the watcher calls it after godotenv.Load
\* (line 231); then line 89, os.Getenv("ACCOUNTS") and ParseAccountIDs.  The
\* watcher is in the pass until it returns, and then in its select again.
PassCall(p) ==
    /\ \/ p = "startup" /\ pass[p].pc = "idle"
       \/ p = "watch" /\ watcher = "reloaded"
    /\ watcher' = IF p = "watch" THEN "watching" ELSE watcher
    /\ pass' = [pass EXCEPT ![p] =
                  [IdlePass EXCEPT !.pc = "called",
                                   !.no = IF p = "startup" THEN 0 ELSE passCount + 1,
                                   !.accounts = ParseAccountIDs(accountsEnv)]]
    /\ passCount' = IF p = "startup" THEN passCount ELSE passCount + 1
    /\ UNCHANGED <<accountsEnv, envFile, events, edits, accountCookies, lastRead>>
    /\ UNCHANGED <<poolVars, handlerVars, decodeVars, claudeVars, laterVars>>

\* cookie.go 104-197: os.ReadFile(".env") and what LoadMultiCookies makes of
\* the file, up to its return or to the browser lookup; main.go 90-93
PassRead(p) ==
  \E out \in LoadMultiCookies(pass[p].accounts, envFile) :
    /\ pass[p].pc = "called"
    /\ pass' = [pass EXCEPT ![p] =
            CASE out.next = "err" -> Returned(pass[p], "error")
              [] out.next = "loaded" ->
                    [pass[p] EXCEPT !.pc = "loaded", !.accounts = <<>>,
                                    !.accountIDs = out.ids, !.allCookies = out.cookies]
              [] OTHER -> [pass[p] EXCEPT !.pc = "browse", !.accounts = <<>>,
                                          !.branch = out.next]]
    /\ UNCHANGED <<accountsEnv, envFile, watcher, events, edits, accountCookies, passCount,
                   lastRead>>
    /\ UNCHANGED <<poolVars, handlerVars, decodeVars, claudeVars, laterVars>>

\* cookie.go 106-111 and 146-150: loadCookiesFromBrowser.  found: the cookies
\* of the browser, NoCred when it has no PSID.  Without them the call fails,
\* after createEnvTemplate has written .env when there was no file (109); with
\* them saveToEnv begins, with its os.ReadFile (235).
PassBrowse(p, found) ==
    /\ pass[p].pc = "browse"
    /\ found \in Creds \cup {NoCred}
    /\ LET template == found = NoCred /\ pass[p].branch = "absent"
       IN /\ envFile' = IF template THEN createEnvTemplate ELSE envFile
          /\ events' = IF template THEN events + Notified ELSE events
    /\ pass' = [pass EXCEPT ![p] =
            IF found = NoCred THEN Returned(pass[p], "error")
            ELSE [pass[p] EXCEPT !.pc = "save", !.read = envFile,
                                 !.accountIDs = <<"">>, !.allCookies = <<found>>]]
    /\ UNCHANGED <<accountsEnv, watcher, edits, accountCookies, passCount, lastRead>>
    /\ UNCHANGED <<poolVars, handlerVars, decodeVars, claudeVars, laterVars>>

\* cookie.go 286 and 112-117 / 151-155: the os.WriteFile of saveToEnv, and
\* LoadMultiCookies returns the browser's cookies for the account ""
PassSave(p) ==
    /\ pass[p].pc = "save"
    /\ envFile' = saveToEnv(pass[p].read, pass[p].allCookies[1])
    /\ events' = events + Notified
    /\ pass' = [pass EXCEPT ![p] =
                  [pass[p] EXCEPT !.pc = "loaded", !.branch = "", !.read = AbsentFile]]
    /\ UNCHANGED <<accountsEnv, watcher, edits, accountCookies, passCount, lastRead>>
    /\ UNCHANGED <<poolVars, handlerVars, decodeVars, claudeVars, laterVars>>

\* lines 95-122
PassSnapshot(p) ==
    /\ pass[p].pc = "loaded"
    /\ LET old == accountCookies
           new == NewCookies(pass[p].accountIDs, pass[p].allCookies)
           toInit == ToInit(pass[p].accountIDs, old, new)
           r == [pass[p] EXCEPT !.pc = "init",
                          !.oldCookies = old, !.newCookies = new, !.toInit = toInit,
                          !.poolBefore = entries,
                          !.same = (new = lastRead)]
       IN /\ pass' = [pass EXCEPT ![p] = IF toInit = {} THEN Returned(r, "unchanged") ELSE r]
          /\ lastRead' = IF toInit = {} THEN new ELSE lastRead
    /\ UNCHANGED <<accountsEnv, envFile, watcher, events, edits, accountCookies, passCount>>
    /\ UNCHANGED <<poolVars, handlerVars, decodeVars, claudeVars, laterVars>>

\* A faulty worker that sends its client whether or not Init returned nil (C13
\* does not hold of it)
WorkerResultUnchecked(okAt, n, i, id, c) ==
    <<[client |-> IF okAt = 0 THEN NewClient(n, i, id, c) ELSE MkClient(n, i, id, c),
       accountID |-> id]>>
\* lines 159-165: what the worker sends on results, only after an attempt whose
\* NewClient and Init returned nil within the timeout
WorkerResult(okAt, n, i, id, c) ==
    IF okAt = 0 THEN <<>>
    ELSE <<[client |-> MkClient(n, i, id, c), accountID |-> id]>>

\* lines 130-183: the worker of account i.  It tries NewClient and Init up to
\* maxRetries times, each within 10 s; okAt is the attempt that succeeds, 0 when
\* every attempt fails or times out.  A success sends the client on results.
InitWorker(p, okAt) ==
  \E i \in pass[p].toInit \ pass[p].finished :
    /\ pass[p].pc = "init"
    /\ okAt \in 0..maxRetries
    /\ LET r == [pass[p] EXCEPT !.finished = @ \cup {i}]
       IN pass' = [pass EXCEPT ![p] =
            [r EXCEPT !.failed = IF okAt = 0 THEN @ \cup {i} ELSE @,
                      !.results = @ \o WorkerResult(okAt, r.no, i, r.accountIDs[i],
                                                    r.allCookies[i])]]
    /\ UNCHANGED <<accountsEnv, envFile, watcher, events, edits, accountCookies, passCount,
                   lastRead>>
    /\ UNCHANGED <<poolVars, handlerVars, decodeVars, claudeVars, laterVars>>

\* lines 188-196: wg.Wait(), the results collected, pool.ReplaceAccounts
PassReplace(p) ==
    /\ pass[p].pc = "init"
    /\ pass[p].finished = pass[p].toInit
    /\ readers = {}
    /\ entries' = ReplaceAccounts(entries, pass[p].accountIDs, ChangedAccounts(pass[p].results))
    /\ served' = ZeroServed(entries')
    /\ pass' = [pass EXCEPT ![p].pc = "store", ![p].poolAfter = entries']
    /\ UNCHANGED <<index, readers, mu, hs, calls, writes>>
    /\ UNCHANGED <<accountsEnv, envFile, watcher, events, edits, accountCookies, passCount,
                   lastRead>>
    /\ UNCHANGED <<decodeVars, claudeVars, laterVars>>

\* lines 198-200
PassStore(p) ==
    /\ pass[p].pc = "store"
    /\ accountCookies' = pass[p].newCookies
    /\ pass' = [pass EXCEPT ![p] = Returned(pass[p], "stored")]
    /\ lastRead' = pass[p].newCookies
    /\ UNCHANGED <<accountsEnv, envFile, watcher, events, edits, passCount>>
    /\ UNCHANGED <<poolVars, handlerVars, decodeVars, claudeVars, laterVars>>

(***************************************************************************)
(* The workers of a pass attempt by attempt (main.go 130-186).  Worker i   *)
(* runs NewClient and Init in a goroutine of its own and waits for it on   *)
(* done or for the 10 s timeout, up to maxRetries times.                   *)
(***************************************************************************)
\* how the attempts of worker i have ended so far; "?" is an attempt under way
Tries(r, i) == IF i \in DOMAIN r.tries THEN r.tries[i] ELSE <<>>

SetTries(r, i, t) ==
    [j \in 1..Len(r.accountIDs) |-> IF j = i THEN t ELSE Tries(r, j)]

Underway(r, i) == Tries(r, i) # <<>> /\ Tries(r, i)[Len(Tries(r, i))] = "?"

\* a channel without a buffer, on which a send waits for its receiver
ResultsCapZero(r) == 0
\* line 128: results := make(chan accountResult, len(toInit))
ResultsCap(r) == Cardinality(r.toInit)

\* lines 145-157: the next attempt of worker i starts, the first at once, a later
\* one after the 2 s sleep that follows a failure or a timeout
AttemptStart(p, i) ==
    /\ pass[p].pc = "init"
    /\ i \in pass[p].toInit \ (pass[p].finished \cup pass[p].sending)
    /\ ~Underway(pass[p], i)
    /\ Len(Tries(pass[p], i)) < maxRetries
    /\ pass' = [pass EXCEPT ![p].tries =
                    SetTries(pass[p], i, Append(Tries(pass[p], i), "?"))]
    /\ UNCHANGED <<accountsEnv, envFile, watcher, events, edits, accountCookies, passCount,
                   lastRead>>
    /\ UNCHANGED <<poolVars, handlerVars, decodeVars, claudeVars, laterVars>>

\* lines 159-181, the select: done delivers nil ("ok") or an error ("err"), or
\* the context's timeout comes first ("timeout") and the attempt is left behind,
\* hanging or not.  After the last attempt the worker returns.
AttemptEnd(p, i, how) ==
    /\ pass[p].pc = "init"
    /\ how \in {"ok", "err", "timeout"}
    /\ Underway(pass[p], i)
    /\ LET r == pass[p]
           n == Len(Tries(r, i))
           t == [Tries(r, i) EXCEPT ![n] = how]
           last == how # "ok" /\ n = maxRetries
       IN pass' = [pass EXCEPT ![p] =
            [r EXCEPT !.tries = SetTries(r, i, t),
                      !.sending = IF how = "ok" THEN @ \cup {i} ELSE @,
                      !.finished = IF last THEN @ \cup {i} ELSE @,
                      !.failed = IF last THEN @ \cup {i} ELSE @]]
    /\ UNCHANGED <<accountsEnv, envFile, watcher, events, edits, accountCookies, passCount,
                   lastRead>>
    /\ UNCHANGED <<poolVars, handlerVars, decodeVars, claudeVars, laterVars>>

\* lines 161-163: the send on results, which needs room in the channel (nobody
\* receives before wg.Wait() has returned), and the worker's return
ResultSend(p, i) ==
    /\ pass[p].pc = "init"
    /\ i \in pass[p].sending
    /\ Len(pass[p].results) < ResultsCap(pass[p])
    /\ LET r == pass[p]
       IN pass' = [pass EXCEPT ![p] =
            [r EXCEPT !.sending = @ \ {i},
                      !.finished = @ \cup {i},
                      !.results = @ \o WorkerResult(Len(Tries(r, i)), r.no, i,
                                                    r.accountIDs[i], r.allCookies[i])]]
    /\ UNCHANGED <<accountsEnv, envFile, watcher, events, edits, accountCookies, passCount,
                   lastRead>>
    /\ UNCHANGED <<poolVars, handlerVars, decodeVars, claudeVars, laterVars>>

(***************************************************************************)
(* pool.ReplaceAccounts step by step, as a reader of the pool could see it *)
(* were it not for p.mu: the list is emptied (line 68) and grows by one    *)
(* entry per iteration (lines 69-81).                                      *)
(***************************************************************************)
\* balancer.go 69-81, one iteration: what is appended for accountID
AppendFor(oldEntries, changedClients, accountID) ==
    IF accountID \in DOMAIN changedClients
       THEN <<AccountEntry(changedClients[accountID], accountID)>>
    ELSE IF accountID \in DOMAIN oldEntries
       THEN <<AccountEntry(oldEntries[accountID], accountID)>>
    ELSE <<>>

\* main.go 188-196 and balancer.go 60-68: wg.Wait(), the results collected,
\* p.mu.Lock() once no reader is inside, oldEntries built, p.entries emptied
PassReplaceLock(p) ==
    /\ pass[p].pc = "init"
    /\ pass[p].finished = pass[p].toInit
    /\ readers = {}
    /\ mu.writer = ""
    /\ mu' = [writer |-> p, rest |-> pass[p].accountIDs,
              oldEntries |-> OldEntries(entries), before |-> entries,
              after |-> ReplaceAccounts(entries, pass[p].accountIDs,
                                        ChangedAccounts(pass[p].results))]
    /\ entries' = <<>>
    /\ served' = ZeroServed(entries')
    /\ pass' = [pass EXCEPT ![p].pc = "replacing"]
    /\ UNCHANGED <<index, readers, hs, calls, writes>>
    /\ UNCHANGED <<accountsEnv, envFile, watcher, events, edits, accountCookies, passCount,
                   lastRead>>
    /\ UNCHANGED <<decodeVars, claudeVars, laterVars>>

\* balancer.go 69-81: one iteration of the loop
PassReplaceAppend(p) ==
    /\ pass[p].pc = "replacing"
    /\ mu.rest # <<>>
    /\ entries' = entries \o AppendFor(mu.oldEntries, ChangedAccounts(pass[p].results),
                                       Head(mu.rest))
    /\ served' = ZeroServed(entries')
    /\ mu' = [mu EXCEPT !.rest = Tail(@)]
    /\ UNCHANGED <<index, readers, hs, calls, writes>>
    /\ UNCHANGED reconVars
    /\ UNCHANGED <<decodeVars, claudeVars, laterVars>>

\* balancer.go 61: the deferred p.mu.Unlock(), after the loop
PassReplaceUnlock(p) ==
    /\ pass[p].pc = "replacing"
    /\ mu.rest = <<>>
    /\ mu' = [mu EXCEPT !.writer = "", !.oldEntries = EmptyMap]
    /\ pass' = [pass EXCEPT ![p].pc = "store", ![p].poolAfter = entries]
    /\ UNCHANGED <<entries, index, readers, hs, served, calls, writes>>
    /\ UNCHANGED <<accountsEnv, envFile, watcher, events, edits, accountCookies, passCount,
                   lastRead>>
    /\ UNCHANGED <<decodeVars, claudeVars, laterVars>>

(***************************************************************************)
(* Texts.  A text is the sequence of its bytes, position 1 being the byte  *)
(* of index 0.  A byte of the printable ASCII range is written as its      *)
(* character (the grave accent as U+0060), the bytes 0x09, 0x0a, 0x0c and  *)
(* 0x0d as \t, \n, \f and \r, the other bytes below 0x80 as U+00XX and    *)
(* the bytes from 0x80 on as 0xXX; a character above U+007F is the bytes   *)
(* of its UTF-8 encoding.                                                  *)
(***************************************************************************)
Drop(s, n) == SubSeq(s, n + 1, Len(s))

IsPrefix(s, t) == Len(s) <= Len(t) /\ SubSeq(t, 1, Len(s)) = s

\* The sequences of ss joined, by halves
RECURSIVE Flat(_)
Flat(ss) ==
    IF Len(ss) = 0 THEN <<>>
    ELSE IF Len(ss) = 1 THEN ss[1]
    ELSE LET h == Len(ss) \div 2
         IN Flat(SubSeq(ss, 1, h)) \o Flat(SubSeq(ss, h + 1, Len(ss)))

\* the least member of a set of positions, or none when it is empty
FirstIn(S, none) == IF S = {} THEN none ELSE CHOOSE i \in S : \A k \in S : i <= k

RECURSIVE CountLeading(_, _)
CountLeading(s, S) ==
    IF s # <<>> /\ Head(s) \in S THEN 1 + CountLeading(Tail(s), S) ELSE 0

Digits == {"0", "1", "2", "3", "4", "5", "6", "7", "8", "9"}

LowerLetters == {"a", "b", "c", "d", "e", "f", "g", "h", "i", "j", "k", "l", "m",
                 "n", "o", "p", "q", "r", "s", "t", "u", "v", "w", "x", "y", "z"}

\* the characters 0x20 to 0x7e
Ascii ==
    <<" ", "!", "\"", "#", "$", "%", "&", "'", "(", ")", "*", "+", ",", "-", ".", "/",
      "0", "1", "2", "3", "4", "5", "6", "7", "8", "9", ":", ";", "<", "=", ">", "?",
      "@", "A", "B", "C", "D", "E", "F", "G", "H", "I", "J", "K", "L", "M", "N", "O",
      "P", "Q", "R", "S", "T", "U", "V", "W", "X", "Y", "Z", "[", "\\", "]", "^", "_",
      "U+0060", "a", "b", "c", "d", "e", "f", "g", "h", "i", "j", "k", "l", "m", "n", "o",
      "p", "q", "r", "s", "t", "u", "v", "w", "x", "y", "z", "{", "|", "}", "~">>

\* a number in hexadecimal, width digits at least
RECURSIVE HexText(_, _)
HexText(n, width) ==
    LET d == <<"0", "1", "2", "3", "4", "5", "6", "7", "8", "9",
               "A", "B", "C", "D", "E", "F">>[(n % 16) + 1]
    IN IF n < 16 /\ width <= 1 THEN d ELSE HexText(n \div 16, width - 1) \o d

\* utf16.IsSurrogate
IsSurrogate(r) == 55296 <= r /\ r < 57344

\* the byte of value n
Byte(n) ==
    IF 32 <= n /\ n <= 126 THEN Ascii[n - 31]
    ELSE IF n = 9 THEN "\t"
    ELSE IF n = 10 THEN "\n"
    ELSE IF n = 12 THEN "\f"
    ELSE IF n = 13 THEN "\r"
    ELSE IF n < 128 THEN "U+" \o HexText(n, 4)
    ELSE "0x" \o HexText(n, 2)

\* the bytes below the space, and those not above it
Control == {Byte(n) : n \in 0..31}
Blank == Control \cup {" "}

\* the bytes from 0x80 on by their values, and the value of such a byte, 0
\* for a byte below 0x80
HighBytes == [n \in 128..255 |-> Byte(n)]
High(c) == FirstIn({n \in 128..255 : HighBytes[n] = c}, 0)

\* utf8.EncodeRune: the bytes of a code point; a surrogate and a value above
\* U+10FFFF are written as U+FFFD
Rune(r) ==
    IF r < 128 THEN <<Byte(r)>>
    ELSE IF r < 2048 THEN <<Byte(192 + (r \div 64)), Byte(128 + (r % 64))>>
    ELSE IF IsSurrogate(r) \/ r > 1114111 THEN <<Byte(239), Byte(191), Byte(189)>>
    ELSE IF r < 65536
       THEN <<Byte(224 + (r \div 4096)), Byte(128 + ((r \div 64) % 64)), Byte(128 + (r % 64))>>
    ELSE <<Byte(240 + (r \div 262144)), Byte(128 + ((r \div 4096) % 64)),
           Byte(128 + ((r \div 64) % 64)), Byte(128 + (r % 64))>>

\* utf8.DecodeRuneInString: the number of bytes of the rune at the head of s,
\* 0 when the bytes there encode none
RuneSize(s) ==
    LET b == High(s[1])
        n == IF b = 0 THEN 1
             ELSE IF 194 <= b /\ b <= 223 THEN 2
             ELSE IF 224 <= b /\ b <= 239 THEN 3
             ELSE IF 240 <= b /\ b <= 244 THEN 4
             ELSE 0
        lo == IF b = 224 THEN 160 ELSE IF b = 240 THEN 144 ELSE 128
        hi == IF b = 237 THEN 159 ELSE IF b = 244 THEN 143 ELSE 191
        cont(k, l, h) == k > n \/ (l <= High(s[k]) /\ High(s[k]) <= h)
    IN IF n = 0 \/ Len(s) < n THEN 0
       ELSE IF cont(2, lo, hi) /\ cont(3, 128, 191) /\ cont(4, 128, 191) THEN n
       ELSE 0

\* []rune(s): the runes of a string, each as the bytes that string() writes
\* for it; a byte that begins no rune is U+FFFD
RECURSIVE Runes(_)
Runes(s) ==
    LET p == FirstIn({k \in 1..Len(s) : High(s[k]) > 0}, Len(s) + 1)
        ascii == [k \in 1..(p - 1) |-> <<s[k]>>]
        rest == Drop(s, p - 1)
        n == RuneSize(rest)
    IN IF p > Len(s) THEN ascii
       ELSE IF n = 0 THEN ascii \o <<Rune(65533)>> \o Runes(Tail(rest))
       ELSE ascii \o <<SubSeq(rest, 1, n)>> \o Runes(Drop(rest, n))

\* the characters of a string of ASCII as a text
Chars(str) == [k \in 1..Len(str) |-> SubSeq(str, k, k)]

(***************************************************************************)
(* adapter.parseGeminiResponse (handler.go 287-363), the body of           *)
(* candidates.ForEach on the text and the thought of a candidate.          *)
(***************************************************************************)
TextChars == {"\\", "<"}
ThoughtChars == {"t"}
Texts == SeqsUpTo(TextChars, MaxLen)
Thoughts == SeqsUpTo(ThoughtChars, MaxLen)

\* strings.ReplaceAll(s, `\` + c, c): left to right, matches do not overlap
RECURSIVE ReplaceAll(_, _)
ReplaceAll(s, c) ==
    LET p == FirstIn({k \in 1..(Len(s) - 1) : s[k] = "\\" /\ s[k + 1] = c}, 0)
    IN IF p = 0 THEN s
       ELSE SubSeq(s, 1, p - 1) \o <<c>> \o ReplaceAll(Drop(s, p + 1), c)

\* a mutilated reversal that knows only the first of the five replacements
UnescapeFirstOnly(s) == ReplaceAll(s, "<")

\* handler.go 347-351 (and streaming.go 285-289): the five replacements in order
Unescape(s) ==
    ReplaceAll(ReplaceAll(ReplaceAll(ReplaceAll(ReplaceAll(s, "<"), ">"), "_"), "["), "]")

\* line 429: the length of a match of imagePlaceholderRegex at the head of s,
\* or 0.  \s is one of \t \n \f \r and the space, \d a digit.
RegexSpace == {"\t", "\n", "\f", "\r", " "}
PlaceholderHost == Chars("://googleusercontent.com/image_generation_content/")
PlaceholderURL == Chars("http") \o PlaceholderHost
PlaceholderMatch(s) ==
    LET k == CountLeading(s, RegexSpace)
        r == Drop(s, k)
        u == IF IsPrefix(Chars("http") \o PlaceholderHost, r) THEN 4 + Len(PlaceholderHost)
             ELSE IF IsPrefix(Chars("https") \o PlaceholderHost, r)
                THEN 5 + Len(PlaceholderHost)
             ELSE 0
        d == IF u = 0 THEN 0 ELSE CountLeading(Drop(r, u), Digits)
    IN IF d = 0 THEN 0 ELSE k + u + d + CountLeading(Drop(r, u + d), RegexSpace)

\* regexp.ReplaceAllString(text, ""): the text without the matches of
\* imagePlaceholderRegex, which are taken from the left and do not overlap
RECURSIVE ReplaceAllString(_)
ReplaceAllString(s) ==
    LET p == FirstIn({k \in 1..Len(s) : PlaceholderMatch(Drop(s, k - 1)) > 0}, 0)
    IN IF p = 0 THEN s
       ELSE SubSeq(s, 1, p - 1)
            \o ReplaceAllString(Drop(s, p - 1 + PlaceholderMatch(Drop(s, p - 1))))

\* handler.go 431-433
filterImagePlaceholders(text) == ReplaceAllString(text)

\* handler.go 323-331 and 333-341: the delta of raw against the last-seen
\* string, cut by runes
RuneDelta(raw, rawRunes, lastRunes) ==
    IF Len(rawRunes) > Len(lastRunes) THEN Flat(Drop(rawRunes, Len(lastRunes)))
    ELSE IF Len(lastRunes) = 0 /\ Len(rawRunes) > 0 THEN raw
    ELSE <<>>

Delta(raw, last) == RuneDelta(raw, Runes(raw), Runes(last))

\* whether raw takes the place of the last-seen string (lines 325 and 328)
Longer(rawRunes, lastRunes) ==
    \/ Len(rawRunes) > Len(lastRunes)
    \/ Len(lastRunes) = 0 /\ Len(rawRunes) > 0

\* A faulty decoder that remembers every candidate (C4 does not hold of it)
RememberLatest(raw, last) == raw
\* lines 327, 330 / 337, 340: the last-seen string after the candidate
Remember(raw, last) == IF Longer(Runes(raw), Runes(last)) THEN raw ELSE last

\* lines 343-356: what onChunk receives, or no call
EmittedText(deltaText, deltaThoughts) ==
    IF deltaText = <<>> /\ deltaThoughts = <<>> THEN <<>>
    ELSE filterImagePlaceholders(Unescape(deltaText))

\* lines 343-345 and 354: whether onChunk is called, text being what it would
\* receive
Fired(deltaText, deltaThoughts, text) ==
    /\ ~(deltaText = <<>> /\ deltaThoughts = <<>>)
    /\ text # <<>> \/ deltaThoughts # <<>>

Fires(deltaText, deltaThoughts) ==
    Fired(deltaText, deltaThoughts, EmittedText(deltaText, deltaThoughts))

NoSeen == [text |-> <<>>, thoughts |-> <<>>]

InitDec ==
    [steps |-> 0, cand |-> 0,
     rawText |-> <<>>, rawThoughts |-> <<>>,        \* the candidate just decoded
     deltaText |-> <<>>, deltaThoughts |-> <<>>,    \* lines 320-341, before unescaping
     fired |-> FALSE, text |-> <<>>, thought |-> <<>>,  \* the onChunk call, if any
     repeat |-> FALSE,    \* the frame just decoded is the previous frame again
     outText |-> <<>>, outThoughts |-> <<>>,        \* history: the deltas passed, joined
     seen |-> [i \in 0..(MaxCands - 1) |-> NoSeen],    \* history: per index, its last candidate
     before |-> NoSeen]   \* history: seen[cand] as it was before this candidate

\* The body of candidates.ForEach (lines 316-358) run on one candidate: the first
\* of a new frame, or the next one of the frame being decoded.
DecodedCall(rawText, rawThoughts, newFrame, deltaText, deltaThoughts, text) ==
    [dec EXCEPT
        !.steps = @ + 1,
        !.cand = IF newFrame THEN 0 ELSE @ + 1,
        !.rawText = rawText, !.rawThoughts = rawThoughts,
        !.deltaText = deltaText, !.deltaThoughts = deltaThoughts,
        !.fired = Fired(deltaText, deltaThoughts, text),
        !.text = IF Fired(deltaText, deltaThoughts, text) THEN text ELSE <<>>,
        !.thought = IF Fired(deltaText, deltaThoughts, text) THEN deltaThoughts ELSE <<>>,
        !.repeat = /\ newFrame /\ dec.steps > 0 /\ dec.cand = 0
                   /\ rawText = dec.rawText /\ rawThoughts = dec.rawThoughts]

DecodedDeltas(rawText, rawThoughts, newFrame, deltaText, deltaThoughts) ==
    DecodedCall(rawText, rawThoughts, newFrame, deltaText, deltaThoughts,
                EmittedText(deltaText, deltaThoughts))

Decoded(rawText, rawThoughts, newFrame) ==
    DecodedDeltas(rawText, rawThoughts, newFrame,
                  Delta(rawText, lastText), Delta(rawThoughts, lastThoughts))

DecodeStep(rawText, rawThoughts, newFrame, d) ==
    /\ newFrame \/ (dec.steps > 0 /\ dec.cand + 1 < MaxCands)
    /\ lastText' = Remember(rawText, lastText)
    /\ lastThoughts' = Remember(rawThoughts, lastThoughts)
    /\ dec' = d

Decode(rawText, rawThoughts, newFrame, d) ==
    /\ DecodeStep(rawText, rawThoughts, newFrame, d)
    /\ UNCHANGED <<poolVars, handlerVars, reconVars, claudeVars, laterVars>>

\* Any candidate of any frame
ProcessCandidate(rawText, rawThoughts, newFrame) ==
    /\ dec.steps < MaxSteps
    /\ Decode(rawText, rawThoughts, newFrame, Decoded(rawText, rawThoughts, newFrame))

\* A frame of one candidate whose text and thought extend those of the frame
\* before; what onChunk receives is appended to outText and outThoughts.
Joined(d) == [d EXCEPT !.outText = @ \o d.text, !.outThoughts = @ \o d.thought]

ProcessFrame(rawText, rawThoughts) ==
    /\ dec.steps < MaxSteps
    /\ IsPrefix(dec.rawText, rawText)
    /\ IsPrefix(dec.rawThoughts, rawThoughts)
    /\ Decode(rawText, rawThoughts, TRUE, Joined(Decoded(rawText, rawThoughts, TRUE)))

\* Any candidate of any frame, with what its index presented last
Indexed(rawText, rawThoughts, d) ==
    [d EXCEPT !.seen[d.cand] = [text |-> rawText, thoughts |-> rawThoughts],
              !.before = dec.seen[d.cand]]

ProcessIndexed(rawText, rawThoughts, newFrame) ==
    /\ dec.steps < MaxSteps
    /\ Decode(rawText, rawThoughts, newFrame,
              Indexed(rawText, rawThoughts, Decoded(rawText, rawThoughts, newFrame)))

(***************************************************************************)
(* adapter.ChatCompletionHandler (handler.go 127-284) on one request of a  *)
(* text model, once pool.Next() has returned a client.                     *)
(***************************************************************************)
\* The delta object of a chunk: the keys it has and their values; DONE is the
\* line "data: [DONE]"
Chunk(keys, reasoning, content) ==
    [keys |-> keys, reasoning_content |-> reasoning, content |-> content]
DONE == Chunk({"[DONE]"}, <<>>, <<>>)

\* handler.go 365-384
sendSSERole(w) == Append(w, Chunk({"role"}, <<>>, <<>>))
\* handler.go 386-405
sendSSE(w, content) == Append(w, Chunk({"content"}, <<>>, content))
\* handler.go 407-427
sendSSEThinking(w, thinking) ==
    Append(w, Chunk({"reasoning_content", "content"}, thinking, <<>>))

\* A faulty callback that writes a chunk for every delta, empty or not (C15
\* does not hold of it)
onChunkAlways(w, text, thought) == sendSSE(sendSSEThinking(w, thought), text)
\* handler.go 270-277: the callback of the streaming branch
onChunk(w, text, thought) ==
    LET w1 == IF thought # <<>> THEN sendSSEThinking(w, thought) ELSE w
    IN IF text # <<>> THEN sendSSE(w1, text) ELSE w1

\* stream: req.Stream; status: the HTTP status written, 0 while none; upstream:
\* calls of StreamGenerateContent; deltas: history, the onChunk calls made;
\* message: the message of the non-streaming answer; line: history, the kind of
\* the line read last
InitOa ==
    [pc |-> "start", stream |-> FALSE, status |-> 0, upstream |-> 0,
     deltas |-> <<>>, message |-> [content |-> <<>>, reasoning_content |-> <<>>],
     line |-> "none",
     bodyOK |-> TRUE,     \* history: the inbound body was accepted
     callOK |-> TRUE]     \* history: StreamGenerateContent returned no error

\* A faulty handler that goes on with a body that did not bind (C20 does not
\* hold of it)
BoundUnchecked(r, ok, stream) ==
    [r EXCEPT !.pc = "bound", !.stream = stream, !.bodyOK = ok]
\* handler.go 137-141, image_handler.go 361-382: the answer 400 to a body that
\* does not bind (Claude: or has no messages), before any upstream call
Bound(r, ok, stream) ==
    IF ok THEN [r EXCEPT !.pc = "bound", !.stream = stream]
    ELSE [r EXCEPT !.pc = "done", !.status = 400, !.bodyOK = FALSE]

\* handler.go 217-223, image_handler.go 396-408: the answer 500 to a failed
\* StreamGenerateContent
Called(r, ok) ==
    IF ok THEN [r EXCEPT !.pc = "open", !.upstream = @ + 1]
    ELSE [r EXCEPT !.pc = "done", !.upstream = @ + 1, !.status = 500, !.callOK = FALSE]

\* The lines of a body that are not a JSON array: "blank" after trimming; "other",
\* whose first character is not "["; "cut", which begins as an array and is not
\* valid JSON, such as a frame cut short after its first item
BadLines == {"blank", "other", "cut"}

\* lines 300-303: gjson.Parse(line).IsArray().  gjson does not validate: the
\* result is an array when the first character of the line is "[".
IsArray(kind) == kind \in {"array", "cut"}

\* The texts of the candidates of a chat stream: with an escape, and with an
\* image placeholder
StreamTexts == {<<>>, <<"<">>, <<"\\", "<">>, PlaceholderURL \o <<"7">>}

\* lines 137-141: c.ShouldBindJSON(&req)
ChatBind(ok, stream) ==
    /\ oa.pc = "start"
    /\ oa' = Bound(oa, ok, stream)
    /\ UNCHANGED <<sse, firstVars, clientVars, finVars, messagesVars, helperVars>>

\* lines 217-223: client.StreamGenerateContent
ChatGenerate(ok) ==
    /\ oa.pc = "bound"
    /\ oa' = Called(oa, ok)
    /\ UNCHANGED <<sse, firstVars, clientVars, finVars, messagesVars, helperVars>>

\* lines 229 and 259-266: the branch on req.Stream; the streaming branch writes
\* the role chunk, and with it the status 200
ChatBranch ==
    /\ oa.pc = "open"
    /\ oa' = [oa EXCEPT !.pc = "parsing", !.status = IF oa.stream THEN 200 ELSE 0]
    /\ sse' = IF oa.stream THEN sendSSERole(sse) ELSE sse
    /\ UNCHANGED <<firstVars, clientVars, finVars, messagesVars, helperVars>>

\* parseGeminiResponse on the next line of the body, with the callback of the
\* branch (lines 234-237 or 270-277).  kind: "array", or one of BadLines;
\* rawText, rawThoughts: the candidate in the first item of the line, as far
\* as gjson reads it.  A blank line (lines 294-298) and a line that IsArray
\* refuses (lines 300-303) are skipped.
ChatDecoded(kind, rawText, rawThoughts, d) ==
    /\ DecodeStep(rawText, rawThoughts, TRUE, d)
    /\ sse' = IF oa.stream /\ d.fired THEN onChunk(sse, d.text, d.thought) ELSE sse
    /\ oa' = IF d.fired
                THEN [oa EXCEPT
                        !.line = kind,
                        !.deltas = Append(@, [text |-> d.text, thought |-> d.thought]),
                        !.message.content = IF oa.stream THEN @ ELSE @ \o d.text,
                        !.message.reasoning_content =
                            IF oa.stream THEN @ ELSE @ \o d.thought]
                ELSE [oa EXCEPT !.line = kind]

ChatLine(kind, rawText, rawThoughts) ==
    /\ IF kind # "blank" /\ IsArray(kind)
          THEN ChatDecoded(kind, rawText, rawThoughts, Decoded(rawText, rawThoughts, TRUE))
          ELSE /\ dec' = [dec EXCEPT !.steps = @ + 1]
               /\ oa' = [oa EXCEPT !.line = kind]
               /\ UNCHANGED <<lastText, lastThoughts, sse>>
    /\ UNCHANGED <<poolVars, handlerVars, reconVars, claudeVars, clientVars, finVars, messagesVars, helperVars>>

\* A line that is a JSON array with one candidate
ChatCandidate(rawText, rawThoughts) ==
    /\ oa.pc = "parsing"
    /\ dec.steps < MaxSteps
    /\ ChatLine("array", rawText, rawThoughts)

\* A line that is blank or whose first character is not "["
ChatSkipLine(kind) ==
    /\ oa.pc = "parsing"
    /\ dec.steps < MaxSteps
    /\ kind \in {"blank", "other"}
    /\ ChatLine(kind, <<>>, <<>>)

\* A line that begins as an array and is not valid JSON: a frame cut short after
\* its first item, which holds a candidate
ChatCutLine(rawText, rawThoughts) ==
    /\ oa.pc = "parsing"
    /\ dec.steps < MaxSteps
    /\ ChatLine("cut", rawText, rawThoughts)

\* lines 143-146 and 639-738: a request for an image model, handled by
\* handleImageChatRequest.  how: no prompt in the messages (400); the upstream
\* call fails (500); no image in the response, or none downloaded (500); or the
\* images are answered, "I" standing for their markdown.
ImageOutcomes == {"no prompt", "call failed", "no images", "answered"}

ChatImage(how) ==
    /\ oa.pc = "bound"
    /\ how \in ImageOutcomes
    /\ oa' = CASE how = "no prompt" ->
                    [oa EXCEPT !.pc = "done", !.status = 400, !.bodyOK = FALSE]
               [] how = "call failed" -> Called(oa, FALSE)
               [] how = "no images" ->
                    [oa EXCEPT !.pc = "done", !.status = 500, !.upstream = @ + 1]
               [] how = "answered" ->
                    [oa EXCEPT !.pc = "done", !.status = 200, !.upstream = @ + 1,
                               !.deltas = <<[text |-> <<"I">>, thought |-> <<>>]>>,
                               !.message.content = IF oa.stream THEN <<>> ELSE <<"I">>]
    /\ sse' = IF how = "answered" /\ oa.stream
                 THEN Append(sendSSE(sendSSERole(sse), <<"I">>), DONE)
                 ELSE sse
    /\ UNCHANGED <<firstVars, clientVars, finVars, messagesVars, helperVars>>

\* The body ends: c.JSON(200, resp) (line 255) or "data: [DONE]" (lines 281-282)
ChatEnd ==
    /\ oa.pc = "parsing"
    /\ oa' = [oa EXCEPT !.pc = "done", !.status = 200]
    /\ sse' = IF oa.stream THEN Append(sse, DONE) ELSE sse
    /\ UNCHANGED <<firstVars, clientVars, finVars, messagesVars, helperVars>>

(***************************************************************************)
(* claude.StreamingState and claude.StreamProcessor (streaming.go).        *)
(* st is the processor with what it has written: [sp, log].                *)
(***************************************************************************)
Event(type, idx, kind, content) ==
    [type |-> type, index |-> idx, kind |-> kind, content |-> content]

\* NewStreamProcessor / NewStreamingState, lines 26-32 and 173-178
InitSp ==
    [MessageStartSent |-> FALSE, MessageStopSent |-> FALSE, BlockIndex |-> 0,
     CurrentBlockType |-> "", inThinkingMode |-> FALSE, inTextMode |-> FALSE]

\* emit, lines 336-343, of a non-empty event
Emit(st, ev) == [st EXCEPT !.log = Append(@, ev)]

\* lines 34-59
EmitMessageStart(st) ==
    IF st.sp.MessageStartSent THEN st
    ELSE Emit([st EXCEPT !.sp.MessageStartSent = TRUE], Event("message_start", -1, "", <<>>))

\* lines 61-89
EmitContentBlockStart(st, blockType) ==
    Emit([st EXCEPT !.sp.CurrentBlockType = blockType],
         Event("content_block_start", st.sp.BlockIndex, blockType, <<>>))

\* A faulty EmitContentBlockDelta that tags every delta text_delta (C30 does not
\* hold of it)
EmitContentBlockDeltaAsText(st, blockType, content) ==
    Emit(st, Event("content_block_delta", st.sp.BlockIndex, "text_delta", content))
\* lines 91-120
EmitContentBlockDelta(st, blockType, content) ==
    Emit(st, Event("content_block_delta", st.sp.BlockIndex,
                   IF blockType = "thinking" THEN "thinking_delta" ELSE "text_delta",
                   content))

\* A faulty EmitContentBlockStop that leaves BlockIndex alone (C29 does not
\* hold of it)
EmitContentBlockStopSameIndex(st) ==
    Emit([st EXCEPT !.sp.CurrentBlockType = ""],
         Event("content_block_stop", st.sp.BlockIndex, "", <<>>))
\* lines 122-132
EmitContentBlockStop(st) ==
    Emit([st EXCEPT !.sp.BlockIndex = @ + 1, !.sp.CurrentBlockType = ""],
         Event("content_block_stop", st.sp.BlockIndex, "", <<>>))

\* lines 134-148
EmitMessageDelta(st, stopReason) ==
    Emit(st, Event("message_delta", -1, stopReason, <<>>))

\* A faulty EmitMessageStop without the guard (C7 does not hold of it)
EmitMessageStopUnguarded(st) ==
    Emit([st EXCEPT !.sp.MessageStopSent = TRUE], Event("message_stop", -1, "", <<>>))
\* lines 150-162
EmitMessageStop(st) ==
    IF st.sp.MessageStopSent THEN st
    ELSE Emit([st EXCEPT !.sp.MessageStopSent = TRUE], Event("message_stop", -1, "", <<>>))

\* html.UnescapeString (streaming.go 292) over the runes & ; and the letters
\* a, l, m, p, t; every other rune of a text is copied.  entity holds the
\* named references over these letters; a rune outside ASCII is written by
\* its code point.
EntityLetters == {"a", "l", "m", "p", "t"}

entity(name) ==
    CASE name = <<"a", "m", "p">> -> "&"
      [] name = <<"a", "m", "p", ";">> -> "&"
      [] name = <<"l", "t">> -> "<"
      [] name = <<"l", "t", ";">> -> "<"
      [] name = <<"a", "p", ";">> -> "U+2248"
      [] name = <<"l", "a", "p", ";">> -> "U+2A85"
      [] name = <<"l", "a", "t", ";">> -> "U+2AAB"
      [] name = <<"l", "l", ";">> -> "U+226A"
      [] name = <<"m", "a", "l", "t", ";">> -> "U+2720"
      [] name = <<"m", "a", "p", ";">> -> "U+21A6"
      [] name = <<"m", "p", ";">> -> "U+2213"
      [] name = <<"p", "m", ";">> -> "U+00B1"
      [] OTHER -> ""

\* the longest entity name without a semicolon
longestEntityWithoutSemicolon == 6

\* html.unescapeEntity on s, which starts with &: the runes written and the
\* number of runes read.  The name is the letters after & and a semicolon that
\* follows them; a name that is no entity is tried by its prefixes, longest
\* first, of two runes at least and without its last rune; else the runes are
\* copied.
unescapeEntity(s) ==
    LET k == CountLeading(Tail(s), EntityLetters)
        i == IF k + 1 < Len(s) /\ s[k + 2] = ";" THEN k + 2 ELSE k + 1
        entityName == SubSeq(s, 2, i)
        maxLen == IF Len(entityName) - 1 > longestEntityWithoutSemicolon
                     THEN longestEntityWithoutSemicolon ELSE Len(entityName) - 1
        found == {j \in 2..maxLen : entity(SubSeq(entityName, 1, j)) # ""}
        j == CHOOSE m \in found : \A n \in found : n <= m
    IN IF Len(s) <= 1 THEN [out |-> <<"&">>, read |-> 1]
       ELSE IF entityName # <<>> /\ entity(entityName) # ""
          THEN [out |-> <<entity(entityName)>>, read |-> i]
       ELSE IF found # {}
          THEN [out |-> <<entity(SubSeq(entityName, 1, j))>>, read |-> j + 1]
       ELSE [out |-> SubSeq(s, 1, i), read |-> i]

\* html.UnescapeString: left to right, what an entity gave is not read again
RECURSIVE UnescapeString(_)
UnescapeString(s) ==
    IF s = <<>> THEN <<>>
    ELSE IF Head(s) = "&"
       THEN LET r == unescapeEntity(s) IN r.out \o UnescapeString(Drop(s, r.read))
    ELSE <<Head(s)>> \o UnescapeString(Tail(s))

\* streaming.go 285-292: the five replacements, then the entities
PartText(text) == UnescapeString(Unescape(text))

\* A part's text that is escaped and holds an entity: \<&amp;lt; is sent as <&lt;
EntityText == <<"\\", "<", "&", "a", "m", "p", ";", "l", "t", ";">>

\* A part as processPart reads it: part[0] as a string ("" when it is none) and
\* part[2] == true
PartValues == {[text |-> t, thought |-> b] : t \in {<<>>, EntityText}, b \in BOOLEAN}

\* A faulty thinking branch that leaves an open text block open (C6 does not
\* hold of it)
ThinkingPartKeepsText(st, text) ==
    LET a == IF ~st.sp.inThinkingMode
                THEN [EmitContentBlockStart(st, "thinking") EXCEPT !.sp.inThinkingMode = TRUE]
                ELSE st
    IN EmitContentBlockDelta(a, "thinking", text)
\* lines 301-310, the thinking branch
ThinkingPart(st, text) ==
    LET a == IF st.sp.inTextMode
                THEN [EmitContentBlockStop(st) EXCEPT !.sp.inTextMode = FALSE]
                ELSE st
        b == IF ~a.sp.inThinkingMode
                THEN [EmitContentBlockStart(a, "thinking") EXCEPT !.sp.inThinkingMode = TRUE]
                ELSE a
    IN EmitContentBlockDelta(b, "thinking", text)

\* lines 311-321, the text branch
TextPart(st, text) ==
    LET a == IF st.sp.inThinkingMode
                THEN [EmitContentBlockStop(st) EXCEPT !.sp.inThinkingMode = FALSE]
                ELSE st
        b == IF ~a.sp.inTextMode
                THEN [EmitContentBlockStart(a, "text") EXCEPT !.sp.inTextMode = TRUE]
                ELSE a
    IN EmitContentBlockDelta(b, "text", text)

\* lines 275-322
processPart(st, part) ==
    IF part.text = <<>> THEN st
    ELSE IF part.thought THEN ThinkingPart(st, PartText(part.text))
    ELSE TextPart(st, PartText(part.text))

RECURSIVE processParts(_, _)
processParts(st, parts) ==
    IF parts = <<>> THEN st
    ELSE processParts(processPart(st, Head(parts)), Tail(parts))

\* lines 238-273: message_start on the first payload, then the parts of its candidates
processGeminiData(st, parts) == processParts(EmitMessageStart(st), parts)

\* A faulty finalize that stops the message before its message_delta (C16 does
\* not hold of it)
finalizeStopFirst(st) ==
    LET a == IF st.sp.inThinkingMode THEN EmitContentBlockStop(st) ELSE st
        b == IF a.sp.inTextMode THEN EmitContentBlockStop(a) ELSE a
    IN EmitMessageDelta(EmitMessageStop(b), "end_turn")
\* lines 324-334
finalize(st) ==
    LET a == IF st.sp.inThinkingMode THEN EmitContentBlockStop(st) ELSE st
        b == IF a.sp.inTextMode THEN EmitContentBlockStop(a) ELSE a
    IN EmitMessageStop(EmitMessageDelta(b, "end_turn"))

\* parts: history, the parts of the line processed last
InitCl == [pc |-> "streaming", lines |-> 0, finalizeCalls |-> 0, stopCalls |-> 0,
           parts |-> <<>>]

\* ProcessGeminiStream, lines 185-196, on a line whose payload is a JSON object
ClaudeLine(parts) ==
    /\ cl.pc = "streaming"
    /\ cl.lines < MaxLines
    /\ LET st == processGeminiData([sp |-> sp, log |-> log], parts)
       IN sp' = st.sp /\ log' = st.log
    /\ cl' = [cl EXCEPT !.lines = @ + 1, !.parts = parts]
    /\ UNCHANGED <<poolVars, handlerVars, reconVars, decodeVars, laterVars>>

\* lines 189-191 and 193-195, 204-230: a blank line, a line that is no JSON array,
\* or items with no string payload or with a payload that is no JSON object
ClaudeSkipLine ==
    /\ cl.pc = "streaming"
    /\ cl.lines < MaxLines
    /\ cl' = [cl EXCEPT !.lines = @ + 1, !.parts = <<>>]
    /\ UNCHANGED <<sp, log>>
    /\ UNCHANGED <<poolVars, handlerVars, reconVars, decodeVars, laterVars>>

\* lines 198-199: the end of the input
ClaudeFinalize ==
    /\ cl.pc = "streaming"
    /\ LET st == finalize([sp |-> sp, log |-> log])
       IN sp' = st.sp /\ log' = st.log
    /\ cl' = [cl EXCEPT !.pc = "finished", !.finalizeCalls = 1]
    /\ UNCHANGED <<poolVars, handlerVars, reconVars, decodeVars, laterVars>>

\* finalize invoked again on the same processor
ClaudeFinalizeAgain ==
    /\ cl.pc = "finished"
    /\ cl.finalizeCalls < MaxFinalize
    /\ LET st == finalize([sp |-> sp, log |-> log])
       IN sp' = st.sp /\ log' = st.log
    /\ cl' = [cl EXCEPT !.finalizeCalls = @ + 1]
    /\ UNCHANGED <<poolVars, handlerVars, reconVars, decodeVars, laterVars>>

\* state.EmitMessageStop invoked again through emit
ClaudeStopAgain ==
    /\ cl.pc = "finished"
    /\ cl.stopCalls < MaxFinalize
    /\ LET st == EmitMessageStop([sp |-> sp, log |-> log])
       IN sp' = st.sp /\ log' = st.log
    /\ cl' = [cl EXCEPT !.stopCalls = @ + 1]
    /\ UNCHANGED <<poolVars, handlerVars, reconVars, decodeVars, laterVars>>

CountType(evs, type) == Cardinality({i \in 1..Len(evs) : evs[i].type = type})

(***************************************************************************)
(* adapter.ClaudeMessagesHandler (image_handler.go 345-469) on one         *)
(* request, once pool.Next() has returned a client.  Its streaming branch  *)
(* runs a StreamProcessor on the upstream body.                            *)
(***************************************************************************)
InitCm ==
    [pc |-> "start", stream |-> FALSE, status |-> 0, upstream |-> 0,
     bodyOK |-> TRUE, callOK |-> TRUE]

\* lines 361-382: c.ShouldBindJSON(&req) and len(req.Messages) == 0
MsgBind(ok, stream) ==
    /\ cm.pc = "start"
    /\ cm' = Bound(cm, ok, stream)
    /\ UNCHANGED <<firstVars, clientVars, openaiVars, finVars, helperVars>>

\* lines 396-408: client.StreamGenerateContent
MsgGenerate(ok) ==
    /\ cm.pc = "bound"
    /\ cm' = Called(cm, ok)
    /\ UNCHANGED <<firstVars, clientVars, openaiVars, finVars, helperVars>>

\* lines 410-418: the streaming branch builds its processor; with the first
\* event the status 200 is written
MsgStream ==
    /\ cm.pc = "open"
    /\ cm.stream
    /\ cm' = [cm EXCEPT !.pc = "streaming", !.status = 200]
    /\ UNCHANGED <<firstVars, clientVars, openaiVars, finVars, helperVars>>

\* lines 421-467: the non-streaming branch answers one message
MsgAnswer ==
    /\ cm.pc = "open"
    /\ ~cm.stream
    /\ cm' = [cm EXCEPT !.pc = "done", !.status = 200]
    /\ UNCHANGED <<firstVars, clientVars, openaiVars, finVars, helperVars>>

\* line 417: ProcessGeminiStream reads a line with a payload
MsgLine(parts) ==
    /\ cm.pc = "streaming"
    /\ ClaudeLine(parts)

\* line 417: ProcessGeminiStream reaches the end of the body
MsgFinalize ==
    /\ cm.pc = "streaming"
    /\ ClaudeFinalize

\* lines 418-420: c.Stream returns
MsgEnd ==
    /\ cm.pc = "streaming"
    /\ cl.pc = "finished"
    /\ cm' = [cm EXCEPT !.pc = "done"]
    /\ UNCHANGED <<firstVars, clientVars, openaiVars, finVars, helperVars>>

(***************************************************************************)
(* gemini.Client.StreamGenerateContent (package gemini, lines 126-170),    *)
(* called by handlers holding the same *Client.  The client has no lock:   *)
(* each read and each write of c.ReqID is a step of its own.               *)
(***************************************************************************)
Callers == {"g1", "g2"}

\* payload.go 87-90: r.Intn(100000) + 100000; the ends of the range and two more
ReqIDs == {100000, 100001, 150000, 199999}

\* Upstream status codes: 200 and two others
Statuses == {200, 429, 500}

\* payloadID: the ID built into the payload (line 127); tmp: the value loaded by
\* c.ReqID++ (line 128); reqid: the _reqid query parameter (line 139); ret: what
\* the call returned
NoReturn == [err |-> FALSE, body |-> "none", returned |-> FALSE]
IdleCall == [pc |-> "idle", payloadID |-> 0, tmp |-> 0, reqid |-> 0,
             transport |-> TRUE, status |-> 0, ret |-> NoReturn]

\* NewClient, line 69: ReqID: GenerateReqID()
GenNewClient(r) ==
    /\ ~sent.built
    /\ ReqID' = r
    /\ sent' = [sent EXCEPT !.built = TRUE, !.start = r]
    /\ UNCHANGED <<gen, firstVars, openaiVars, finVars, messagesVars, helperVars>>

\* line 127: BuildGeneratePayload(prompt, c.ReqID, files, meta)
GenPayload(c) ==
    /\ sent.built
    /\ gen[c].pc \in {"idle", "returned"}
    /\ sent.calls < MaxGenCalls
    /\ gen' = [gen EXCEPT ![c] = [IdleCall EXCEPT !.pc = "payload", !.payloadID = ReqID]]
    /\ sent' = [sent EXCEPT !.calls = @ + 1]
    /\ UNCHANGED <<ReqID, firstVars, openaiVars, finVars, messagesVars, helperVars>>

\* a faulty counter that stays where it is (C28 does not hold of it)
IncrementNone(n) == n
\* line 128, c.ReqID++: the value stored
Increment(n) == n + 1

\* line 128, c.ReqID++: the load
GenIncLoad(c) ==
    /\ gen[c].pc = "payload"
    /\ gen' = [gen EXCEPT ![c].pc = "loaded", ![c].tmp = ReqID]
    /\ UNCHANGED <<ReqID, sent, firstVars, openaiVars, finVars, messagesVars, helperVars>>

\* line 128, c.ReqID++: the store
GenIncStore(c) ==
    /\ gen[c].pc = "loaded"
    /\ ReqID' = Increment(gen[c].tmp)
    /\ gen' = [gen EXCEPT ![c].pc = "stored"]
    /\ UNCHANGED <<sent, firstVars, openaiVars, finVars, messagesVars, helperVars>>

\* line 139: q.Add("_reqid", fmt.Sprintf("%d", c.ReqID))
GenQuery(c) ==
    /\ gen[c].pc = "stored"
    /\ gen' = [gen EXCEPT ![c].pc = "query", ![c].reqid = ReqID]
    /\ sent' = [sent EXCEPT !.ids = Append(@, ReqID)]
    /\ UNCHANGED <<ReqID, firstVars, openaiVars, finVars, messagesVars, helperVars>>

\* A faulty return that leaves the body of a failed response open (C19 does not
\* hold of it)
RespondLeaky(transport, status) ==
    IF ~transport THEN [err |-> TRUE, body |-> "none", returned |-> FALSE]
    ELSE IF status # 200 THEN [err |-> TRUE, body |-> "open", returned |-> FALSE]
    ELSE [err |-> FALSE, body |-> "open", returned |-> TRUE]
\* lines 159-169: what the call returns and the state it leaves the response body
\* in.  transport: httpClient.Do returned no error; status: resp.StatusCode.
Respond(transport, status) ==
    IF ~transport THEN [err |-> TRUE, body |-> "none", returned |-> FALSE]
    ELSE IF status # 200 THEN [err |-> TRUE, body |-> "closed", returned |-> FALSE]
    ELSE [err |-> FALSE, body |-> "open", returned |-> TRUE]

\* lines 159-169
GenDo(c, transport, status) ==
    /\ gen[c].pc = "query"
    /\ gen' = [gen EXCEPT ![c].pc = "returned", ![c].transport = transport,
                          ![c].status = IF transport THEN status ELSE 0,
                          ![c].ret = Respond(transport, status)]
    /\ sent' = [sent EXCEPT !.outcomes =
                    Append(@, IF ~transport THEN "transport"
                              ELSE IF status # 200 THEN "status" ELSE "ok")]
    /\ UNCHANGED <<ReqID, firstVars, openaiVars, finVars, messagesVars, helperVars>>

(***************************************************************************)
(* claude.TransformResponse (streaming.go 352-470) and                     *)
(* claude.MapFinishReason (472-487): the stop reason of the non-streaming  *)
(* Claude answer.                                                          *)
(***************************************************************************)
\* candidate.FinishReason: the upstream reasons, one that is none of them, and
\* "" for the nil pointer
FinishReasons == {"STOP", "MAX_TOKENS", "SAFETY", "RECITATION", "TOOL_USE", "OTHER", ""}

\* A part: Thought set and true; Text nil, "" or not empty; FunctionCall set
Parts == [thought : BOOLEAN, text : {"nil", "", "x"}, call : BOOLEAN]

\* The first candidate of a response; content: candidate.Content is not nil;
\* grounding: candidate.GroundingMetadata is not nil and has GroundingChunks
FirstCandidates ==
    [FinishReason : FinishReasons, content : BOOLEAN, Parts : SeqsUpTo(Parts, MaxFinParts),
     grounding : BOOLEAN]

\* geminiResp.Candidates: empty, or its first candidate (the only one read)
CandidateLists == {<<>>} \cup {<<c>> : c \in {f \in FirstCandidates :
                                                f.content \/ f.Parts = <<>>}}

\* geminiResp: the nil pointer, or a response with its candidates
NilResponse == [nil |-> TRUE, Candidates |-> <<>>]
GeminiResponses == {NilResponse} \cup {[nil |-> FALSE, Candidates |-> c] : c \in CandidateLists}

\* streaming.go 472-487
MapFinishReason(geminiReason) ==
    CASE geminiReason = "STOP" -> "end_turn"
      [] geminiReason = "MAX_TOKENS" -> "max_tokens"
      [] geminiReason = "SAFETY" -> "stop_sequence"
      [] geminiReason = "RECITATION" -> "stop_sequence"
      [] geminiReason = "TOOL_USE" -> "tool_use"
      [] OTHER -> "end_turn"

\* streaming.go 376-389: the switch on *candidate.FinishReason
SwitchFinishReason(reason) ==
    CASE reason \in {"STOP", "MAX_TOKENS"} -> "end_turn"
      [] reason = "SAFETY" -> "stop_sequence"
      [] reason = "RECITATION" -> "stop_sequence"
      [] reason = "TOOL_USE" -> "tool_use"
      [] OTHER -> "end_turn"

\* streaming.go 393-417: the content blocks of the parts and the stop reason
\* after them; r is [stopReason, blocks]
RECURSIVE PartsBlocks(_, _)
PartsBlocks(r, parts) ==
    IF parts = <<>> THEN r
    ELSE LET part == Head(parts)
             next == IF part.thought /\ part.text # "nil"
                        THEN [r EXCEPT !.blocks = Append(@, "thinking")]
                     ELSE IF part.text = "x"
                        THEN [r EXCEPT !.blocks = Append(@, "text")]
                     ELSE IF part.call
                        THEN [stopReason |-> "tool_use", blocks |-> Append(r.blocks, "tool_use")]
                     ELSE r
         IN PartsBlocks(next, Tail(parts))

\* streaming.go 352-470: the error, StopReason and the types of Content; a nil
\* response gives the error and no answer (353-355); the first candidate's
\* grounding chunks add a server_tool_use block after the parts (419-435); an
\* answer without blocks gets one empty text block (438-443)
TransformResponse(geminiResp) ==
    LET start == [stopReason |-> "end_turn", blocks |-> <<>>]
        candidates == geminiResp.Candidates
        r == IF candidates = <<>> THEN start
             ELSE LET candidate == candidates[1]
                      a == IF candidate.FinishReason # ""
                              THEN [start EXCEPT !.stopReason =
                                        SwitchFinishReason(candidate.FinishReason)]
                              ELSE start
                      b == IF candidate.content THEN PartsBlocks(a, candidate.Parts) ELSE a
                  IN IF candidate.grounding
                        THEN [b EXCEPT !.blocks = Append(@, "server_tool_use")]
                        ELSE b
    IN IF geminiResp.nil
          THEN [err |-> "nil gemini response", stopReason |-> "", blocks |-> <<>>]
          ELSE [err |-> "", stopReason |-> r.stopReason,
                blocks |-> IF r.blocks = <<>> THEN <<"text">> ELSE r.blocks]

NoFin == [pc |-> "none", nil |-> FALSE, candidates |-> <<>>, transformed |-> FALSE,
          mapped |-> FALSE, err |-> "", StopReason |-> "", Content |-> <<>>, reason |-> ""]

\* An upstream response is decoded, or the caller holds none
FinResponse(geminiResp) ==
    /\ fin.pc = "none"
    /\ fin' = [NoFin EXCEPT !.pc = "decoded", !.nil = geminiResp.nil,
                            !.candidates = geminiResp.Candidates]
    /\ UNCHANGED <<firstVars, clientVars, openaiVars, messagesVars, helperVars>>

\* TransformResponse is applied to it
FinTransform ==
    /\ fin.pc = "decoded"
    /\ ~fin.transformed
    /\ LET r == TransformResponse([nil |-> fin.nil, Candidates |-> fin.candidates])
       IN fin' = [fin EXCEPT !.transformed = TRUE, !.err = r.err,
                             !.StopReason = r.stopReason, !.Content = r.blocks]
    /\ UNCHANGED <<firstVars, clientVars, openaiVars, messagesVars, helperVars>>

\* MapFinishReason is applied to the finish reason of its first candidate
FinMap ==
    /\ fin.pc = "decoded"
    /\ ~fin.mapped
    /\ ~fin.nil
    /\ fin.candidates # <<>>
    /\ fin.candidates[1].FinishReason # ""
    /\ fin' = [fin EXCEPT !.mapped = TRUE,
                          !.reason = MapFinishReason(fin.candidates[1].FinishReason)]
    /\ UNCHANGED <<firstVars, clientVars, openaiVars, messagesVars, helperVars>>

(***************************************************************************)
(* The escape reversal of the two decoders, applied to one string          *)
(***************************************************************************)
\* the five characters the upstream guards with a backslash
Guarded == {"<", ">", "_", "[", "]"}

\* the strings the reversal is applied to: guarded characters, the backslash and
\* an ordinary character
EscChars == Guarded \cup {"\\", "x"}
EscTexts == SeqsUpTo(EscChars, MaxEscLen)

\* what the upstream does to a text before sending it: each guarded character
\* gets a backslash in front
RECURSIVE Escape(_)
Escape(s) ==
    IF s = <<>> THEN <<>>
    ELSE (IF Head(s) \in Guarded THEN <<"\\", Head(s)>> ELSE <<Head(s)>>) \o Escape(Tail(s))

NoEsc == [pc |-> "none", src |-> <<>>, escaped |-> FALSE, text |-> <<>>, out |-> <<>>]

\* A text arrives from the upstream, escaped by it or as it is
EscInput(s, escaped) ==
    /\ esc.pc = "none"
    /\ esc' = [NoEsc EXCEPT !.pc = "read", !.src = s, !.escaped = escaped,
                            !.text = IF escaped THEN Escape(s) ELSE s]
    /\ UNCHANGED <<wire, img, ct, otherVars>>

\* handler.go 347-351, streaming.go 285-289: the five replacements
EscUnescape ==
    /\ esc.pc = "read"
    /\ esc' = [esc EXCEPT !.pc = "done", !.out = Unescape(esc.text)]
    /\ UNCHANGED <<wire, img, ct, otherVars>>

(***************************************************************************)
(* adapter.parseGeminiResponse (handler.go 287-363) on the bytes of a body: *)
(* the lines are sequences of characters, decoded with gjson.              *)
(***************************************************************************)
\* A JSON value: null, a number (its digits in s), a string (its characters in
\* s), an array (its items in a); JNone is gjson's Result of a path that does
\* not exist.
JV(t, s, a) == [t |-> t, s |-> s, a |-> a]
JNone == JV("none", <<>>, <<>>)
JNull == JV("null", <<>>, <<>>)
JNum(d) == JV("num", d, <<>>)
JStr(s) == JV("str", s, <<>>)
JArr(a) == JV("arr", <<>>, a)

\* The JSON text of a string's characters: a backslash before a quote or a
\* backslash, \n for a line feed, and the \u escape of < as the upstream and
\* sjson write it
EncChars(s) ==
    Flat([i \in 1..Len(s) |->
            IF s[i] \in {"\"", "\\"} THEN <<"\\", s[i]>>
            ELSE IF s[i] = "\n" THEN <<"\\", "n">>
            ELSE IF s[i] = "<" THEN <<"\\", "u", "0", "0", "3", "c">>
            ELSE <<s[i]>>])

\* The JSON text of a value, as the upstream writes it
RECURSIVE Enc(_), EncItems(_)
Enc(v) ==
    CASE v.t = "null" -> <<"n", "u", "l", "l">>
      [] v.t = "num" -> v.s
      [] v.t = "str" -> <<"\"">> \o EncChars(v.s) \o <<"\"">>
      [] v.t = "arr" -> <<"[">> \o EncItems(v.a) \o <<"]">>
      [] OTHER -> <<>>
EncItems(a) ==
    Flat([i \in 1..Len(a) |-> IF i = 1 THEN Enc(a[i]) ELSE <<",">> \o Enc(a[i])])

\* The number of backslashes that stand in a row directly before position i
BackslashesBefore(cs, i) ==
    LET js == {j \in 0..(i - 1) : \A m \in 1..j : cs[i - m] = "\\"}
    IN CHOOSE j \in js : \A k \in js : k <= j

\* a backslash that escapes the character after it
Escaping(cs, i) == cs[i] = "\\" /\ BackslashesBefore(cs, i) % 2 = 0

\* The JSON value that a text written by Enc stands for, and the text after it:
\* what the reader of a payload finds in it.  The strings hold the two escapes
\* of EncChars that BuildGeneratePayload's strings need, \" and \\.
ReadString(cs) ==
    LET qs == {i \in 1..Len(cs) : cs[i] = "\"" /\ BackslashesBefore(cs, i) % 2 = 0}
        end == IF qs = {} THEN Len(cs) + 1 ELSE CHOOSE i \in qs : \A k \in qs : i <= k
        kept == {i \in 1..(end - 1) : ~Escaping(cs, i)}
        at(k) == CHOOSE i \in kept : Cardinality({q \in kept : q < i}) = k - 1
    IN [v |-> JStr([k \in 1..Cardinality(kept) |-> cs[at(k)]]), rest |-> Drop(cs, end)]

RECURSIVE ReadValue(_), ReadItems(_, _)
ReadValue(cs) ==
    IF cs = <<>> THEN [v |-> JNone, rest |-> <<>>]
    ELSE IF Head(cs) = "[" THEN ReadItems(Tail(cs), <<>>)
    ELSE IF Head(cs) = "\"" THEN ReadString(Tail(cs))
    ELSE IF Head(cs) = "n" THEN [v |-> JNull, rest |-> Drop(cs, 4)]
    ELSE IF Head(cs) \in Digits
         THEN LET k == CountLeading(cs, Digits)
              IN [v |-> JNum(SubSeq(cs, 1, k)), rest |-> Drop(cs, k)]
    ELSE [v |-> JNone, rest |-> Tail(cs)]
ReadItems(cs, acc) ==
    IF cs = <<>> THEN [v |-> JArr(acc), rest |-> <<>>]
    ELSE IF Head(cs) = "]" THEN [v |-> JArr(acc), rest |-> Tail(cs)]
    ELSE IF Head(cs) \in {",", " "} THEN ReadItems(Tail(cs), acc)
    ELSE LET r == ReadValue(cs) IN ReadItems(r.rest, Append(acc, r.v))

Read(cs) == ReadValue(cs).v

\* the item of a value at a path of array indexes
RECURSIVE At(_, _)
At(v, path) ==
    IF path = <<>> THEN v
    ELSE IF v.t = "arr" /\ Head(path) < Len(v.a) THEN At(v.a[Head(path) + 1], Tail(path))
    ELSE JNone

(***************************************************************************)
(* tidwall/gjson as parseGeminiResponse uses it: Parse, Result.IsArray,    *)
(* Result.ForEach, Result.Get with a path of numbers and Result.String.    *)
(* gjson reads the bytes of a text from left to right and does not         *)
(* validate it.                                                            *)
(***************************************************************************)
\* the first position from i on whose character is in S (notIn: is not in S),
\* or one past the end
FirstOf(json, i, S) == FirstIn({k \in i..Len(json) : json[k] \in S}, Len(json) + 1)
FirstNotOf(json, i, S) == FirstIn({k \in i..Len(json) : json[k] \notin S}, Len(json) + 1)

\* the decimal digits of a natural number
RECURSIVE Dec(_)
Dec(n) ==
    LET d == <<"0", "1", "2", "3", "4", "5", "6", "7", "8", "9">>[(n % 10) + 1]
    IN IF n < 10 THEN <<d>> ELSE Dec(n \div 10) \o <<d>>

\* the number that decimal digits write
RECURSIVE Val(_)
Val(ds) ==
    IF ds = <<>> THEN 0
    ELSE 10 * Val(SubSeq(ds, 1, Len(ds) - 1))
         + (CHOOSE d \in 0..9 : Dec(d) = <<ds[Len(ds)]>>)

\* the value of a hexadecimal digit, or -1
HexVal(c) ==
    LET lower == <<"0", "1", "2", "3", "4", "5", "6", "7", "8", "9",
                   "a", "b", "c", "d", "e", "f">>
        upper == <<"0", "1", "2", "3", "4", "5", "6", "7", "8", "9",
                   "A", "B", "C", "D", "E", "F">>
        hit == {k \in 1..16 : lower[k] = c \/ upper[k] = c}
    IN IF hit = {} THEN -1 ELSE (CHOOSE k \in hit : TRUE) - 1

\* gjson runeit: strconv.ParseUint(json[:4], 16, 64), 0 when it fails
runeit(json) ==
    IF \E k \in 1..4 : HexVal(json[k]) = -1 THEN 0
    ELSE 4096 * HexVal(json[1]) + 256 * HexVal(json[2]) + 16 * HexVal(json[3])
         + HexVal(json[4])

\* utf16.DecodeRune
DecodeRune(r1, r2) ==
    IF 55296 <= r1 /\ r1 < 56320 /\ 56320 <= r2 /\ r2 < 57344
       THEN (r1 - 55296) * 1024 + (r2 - 56320) + 65536
       ELSE 65533

\* gjson unescape: the bytes that a string's bytes stand for.  A byte below the
\* space, a backslash at the end, an escape that JSON does not have and a \u
\* with fewer than four bytes after it end the string there.
RECURSIVE unescape(_)
unescape(json) ==
    LET p == FirstOf(json, 1, Control \cup {"\\"})
        from == Drop(json, p - 1)
        c == from[2]
        r == runeit(SubSeq(from, 3, 6))
        rest == Drop(from, 6)
        pair == IsSurrogate(r) /\ Len(rest) >= 6 /\ rest[1] = "\\" /\ rest[2] = "u"
        tail ==
            CASE json[p] \in Control -> <<>>
              [] Len(from) = 1 -> <<>>
              [] c \in {"\\", "/", "\""} -> <<c>> \o unescape(Drop(from, 2))
              [] c = "b" -> Rune(8) \o unescape(Drop(from, 2))
              [] c = "f" -> <<"\f">> \o unescape(Drop(from, 2))
              [] c = "n" -> <<"\n">> \o unescape(Drop(from, 2))
              [] c = "r" -> <<"\r">> \o unescape(Drop(from, 2))
              [] c = "t" -> <<"\t">> \o unescape(Drop(from, 2))
              [] c = "u" /\ Len(from) >= 6 /\ pair ->
                    Rune(DecodeRune(r, runeit(SubSeq(rest, 3, 6))))
                    \o unescape(Drop(rest, 6))
              [] c = "u" /\ Len(from) >= 6 /\ ~pair -> Rune(r) \o unescape(rest)
              [] OTHER -> <<>>
    IN IF p > Len(json) THEN json ELSE SubSeq(json, 1, p - 1) \o tail

\* gjson.Result: Type, Raw and Str; Result{} has the Type Null and no Raw
Result(type, raw, str) == [Type |-> type, Raw |-> raw, Str |-> str]
NoResult == Result("Null", <<>>, <<>>)

\* Result.Exists()
Exists(t) == t.Type # "Null" \/ t.Raw # <<>>

\* Result.IsArray()
ResultIsArray(t) == t.Type = "JSON" /\ t.Raw # <<>> /\ t.Raw[1] = "["

\* The closing quote of the string whose first byte stands at position i: the
\* first quote with an even number of backslashes in a row before it, or 0
StringEnd(json, i) ==
    FirstIn({q \in i..Len(json) : json[q] = "\"" /\ BackslashesBefore(json, q) % 2 = 0}, 0)

\* gjson parseString, i standing after the opening quote: the position after
\* the string, its raw text with the quotes, whether it holds a backslash, and
\* whether it is closed
parseString(json, i) ==
    LET q == StringEnd(json, i)
    IN IF q = 0
          THEN [i |-> Len(json) + 1, val |-> SubSeq(json, i - 1, Len(json)),
                vesc |-> FALSE, ok |-> FALSE]
          ELSE [i |-> q + 1, val |-> SubSeq(json, i - 1, q),
                vesc |-> \E k \in i..(q - 1) : json[k] = "\\", ok |-> TRUE]

\* the String Result of a closed raw string
StringResult(val, vesc) ==
    LET s == SubSeq(val, 2, Len(val) - 1)
    IN Result("String", val, IF vesc THEN unescape(s) ELSE s)

\* gjson tostr, json beginning with a quote: a string that is not closed is the
\* rest of the text
tostr(json) ==
    LET r == parseString(json, 2)
        s == Tail(json)
    IN IF r.ok THEN StringResult(r.val, r.vesc)
       ELSE Result("String", json,
                   IF \E k \in 1..Len(s) : s[k] = "\\" THEN unescape(s) ELSE s)

\* gjson parseSquash: the position after the bracket that closes the one at
\* position i, one past the end when none does, and two past the end when the
\* text ends inside a string; the brackets in strings do not count, and the
\* kinds of brackets are not told apart
RECURSIVE SquashFrom(_, _, _)
SquashFrom(json, i, depth) ==
    LET p == FirstOf(json, i, {"\"", "{", "[", "(", "}", "]", ")"})
    IN IF p > Len(json) THEN Len(json) + 1
       ELSE IF json[p] = "\""
          THEN LET q == StringEnd(json, p + 1)
               IN IF q = 0 THEN Len(json) + 2 ELSE SquashFrom(json, q + 1, depth)
       ELSE IF json[p] \in {"{", "[", "("} THEN SquashFrom(json, p + 1, depth + 1)
       ELSE IF depth = 1 THEN p + 1
       ELSE SquashFrom(json, p + 1, depth - 1)

parseSquash(json, i) == SquashFrom(json, i + 1, 1)

\* the raw text of the value squashed from position p to before position e
Squashed(json, p, e) == SubSeq(json, p, IF e > Len(json) THEN Len(json) ELSE e - 1)

\* gjson parseLiteral and tolit: the position after the lower-case letters
\* that follow position i
parseLiteral(json, i) == FirstNotOf(json, i + 1, LowerLetters)

\* gjson parseNumber and tonum: the position of the first blank, comma, ] or }
\* after position i
parseNumber(json, i) == FirstOf(json, i + 1, Blank \cup {",", "]", "}"})

\* the bytes a number begins with; an n does when the byte after it is no u
NumberStart == Digits \cup {"+", "-", "i", "I", "N"}
NanStart(json, i) == json[i] = "n" /\ i + 1 <= Len(json) /\ json[i + 1] # "u"

\* the Result of the literal or number that begins at position i and ends
\* before position e
Scalar(json, i, e) ==
    LET raw == SubSeq(json, i, e - 1)
    IN IF json[i] = "t" THEN Result("True", raw, <<>>)
       ELSE IF json[i] = "f" THEN Result("False", raw, <<>>)
       ELSE IF json[i] = "n" /\ ~NanStart(json, i) THEN Result("Null", raw, <<>>)
       ELSE Result("Number", raw, <<>>)

\* the position after the literal or number that begins at position i
ScalarEnd(json, i) ==
    IF json[i] \in {"t", "f"} \/ (json[i] = "n" /\ ~NanStart(json, i))
       THEN parseLiteral(json, i) ELSE parseNumber(json, i)

\* the bytes a value begins with
ValueStart == NumberStart \cup {"\"", "{", "[", "n", "t", "f"}

\* gjson parseAny: the value at or after position i, the bytes before it that
\* begin no value being passed over
parseAny(json, i) ==
    LET p == FirstOf(json, i, ValueStart)
    IN IF p > Len(json) THEN [i |-> p, value |-> NoResult, ok |-> FALSE]
       ELSE IF json[p] \in {"{", "["}
          THEN LET e == parseSquash(json, p)
               IN [i |-> e, value |-> Result("JSON", Squashed(json, p, e), <<>>),
                   ok |-> TRUE]
       ELSE IF json[p] = "\""
          THEN LET r == parseString(json, p + 1)
               IN IF r.ok THEN [i |-> r.i, value |-> StringResult(r.val, r.vesc), ok |-> TRUE]
                  ELSE [i |-> r.i, value |-> NoResult, ok |-> FALSE]
       ELSE LET e == ScalarEnd(json, p)
            IN [i |-> e, value |-> Scalar(json, p, e), ok |-> TRUE]

\* gjson.Parse: the value at the head of a text after its blanks; an array or
\* an object is the whole rest of the text
Parse(json) ==
    LET i == FirstNotOf(json, 1, Blank)
    IN IF i > Len(json) THEN NoResult
       ELSE IF json[i] \in {"{", "["} THEN Result("JSON", Drop(json, i - 1), <<>>)
       ELSE IF json[i] = "\"" THEN tostr(Drop(json, i - 1))
       ELSE IF json[i] \in NumberStart \cup {"n", "t", "f"}
          THEN Scalar(json, i, ScalarEnd(json, i))
       ELSE NoResult

\* Result.ForEach on an array or an object, from position i: the values handed
\* to the iterator.  After a value one byte is passed over unread.
RECURSIVE ForEachFrom(_, _, _)

\* r: what parseAny found after the key
ForEachValue(json, obj, r) ==
    IF ~r.ok THEN <<>> ELSE <<r.value>> \o ForEachFrom(json, r.i + 1, obj)

ForEachFrom(json, i, obj) ==
    LET k == IF obj THEN FirstOf(json, i, {"\""}) ELSE i
        key == IF obj THEN parseString(json, k + 1)
               ELSE [i |-> i, val |-> <<>>, vesc |-> FALSE, ok |-> TRUE]
    IN IF k > Len(json) \/ ~key.ok THEN <<>>
       ELSE ForEachValue(json, obj,
                         parseAny(json, FirstNotOf(json, key.i, Blank \cup {",", ":"})))

\* Result.ForEach: the values the iterator is called with, in order
ForEach(t) ==
    IF ~Exists(t) THEN <<>>
    ELSE IF t.Type # "JSON" THEN <<t>>
    ELSE LET i == FirstNotOf(t.Raw, 1, Blank)
         IN IF i > Len(t.Raw) \/ t.Raw[i] \notin {"{", "["} THEN <<>>
            ELSE ForEachFrom(t.Raw, i + 1, t.Raw[i] = "{")

\* gjson parseArray and parseObject on a path of numbers, from position i
\* inside the array or object: the position reached, whether the path was
\* found, and its value.  h counts the items of the array passed.
RECURSIVE parseArray(_, _, _, _), parseObject(_, _, _), parseValueAt(_, _, _, _)

\* the value that begins at position p, for an item or a member that matches
\* the head of the path (pmatch) or does not: found when the path ends here,
\* looked into when it goes on and the value is an array or object
pathMiss(i) == [i |-> i, hit |-> FALSE, value |-> NoResult, done |-> FALSE]
pathFound(i, v) == [i |-> i, hit |-> TRUE, value |-> v, done |-> TRUE]

\* r: what the search inside an array or object for the rest of the path gave
pathLooked(r) == IF r.hit THEN pathFound(r.i, r.value) ELSE pathMiss(r.i)

parseValueAt(json, p, path, pmatch) ==
    LET hit == pmatch /\ Len(path) = 1
    IN IF json[p] = "\""
          THEN LET r == parseString(json, p + 1)
               IN IF ~r.ok THEN [pathMiss(r.i) EXCEPT !.done = TRUE]
                  ELSE IF hit THEN pathFound(r.i, StringResult(r.val, r.vesc))
                  ELSE pathMiss(r.i)
       ELSE IF json[p] \in {"{", "["}
          THEN IF pmatch /\ ~hit
                  THEN pathLooked(IF json[p] = "{" THEN parseObject(json, p + 1, Tail(path))
                              ELSE parseArray(json, p + 1, Tail(path), 0))
                  ELSE LET e == parseSquash(json, p)
                       IN IF hit THEN pathFound(e, Result("JSON", Squashed(json, p, e), <<>>))
                          ELSE pathMiss(e)
       ELSE LET e == ScalarEnd(json, p)
            IN IF hit THEN pathFound(e, Scalar(json, p, e)) ELSE pathMiss(e)

\* r: what parseValueAt gave for the item of index h
arrayItem(json, path, h, r) ==
    IF r.done THEN [i |-> r.i, hit |-> r.hit, value |-> r.value]
    ELSE parseArray(json, r.i, path, h + 1)

parseArray(json, i, path, h) ==
    LET p == FirstOf(json, i, ValueStart \cup {"]"})
    IN IF i > Len(json) + 1 THEN [i |-> i, hit |-> FALSE, value |-> NoResult]
       ELSE IF p > Len(json) THEN [i |-> Len(json) + 2, hit |-> FALSE, value |-> NoResult]
       ELSE IF json[p] = "]" THEN [i |-> p + 1, hit |-> FALSE, value |-> NoResult]
       ELSE arrayItem(json, path, h, parseValueAt(json, p, path, Head(path) = h))

\* r: what parseValueAt gave for a member
objectMember(json, path, r) ==
    IF r.done THEN [i |-> r.i, hit |-> r.hit, value |-> r.value]
    ELSE parseObject(json, r.i, path)

parseObject(json, i, path) ==
    LET k == FirstOf(json, i, {"\"", "}"})
        key == parseString(json, k + 1)
        name == SubSeq(key.val, 2, Len(key.val) - 1)
        pmatch == Dec(Head(path)) = (IF key.vesc THEN unescape(name) ELSE name)
        p == FirstOf(json, key.i, ValueStart)
    IN IF i > Len(json) + 1 THEN [i |-> i, hit |-> FALSE, value |-> NoResult]
       ELSE IF k > Len(json) THEN [i |-> Len(json) + 1, hit |-> FALSE, value |-> NoResult]
       ELSE IF json[k] = "}" THEN [i |-> k + 1, hit |-> FALSE, value |-> NoResult]
       ELSE IF ~key.ok \/ p > Len(json)
          THEN [i |-> Len(json) + 1, hit |-> FALSE, value |-> NoResult]
       ELSE objectMember(json, path, parseValueAt(json, p, path, pmatch))

\* gjson.Get, which Result.Get calls on Raw: the bytes before the first { or [
\* are passed over
Get(json, path) ==
    LET p == FirstOf(json, 1, {"{", "["})
    IN IF p > Len(json) THEN NoResult
       ELSE IF json[p] = "{" THEN parseObject(json, p + 1, path).value
       ELSE parseArray(json, p + 1, path, 0).value

(***************************************************************************)
(* strconv.ParseFloat(raw, 64) and strconv.FormatFloat(f, 'f', -1, 64),    *)
(* which gjson calls for the value and the text of a number.  ParseFloat   *)
(* gives the float64 nearest the number that the text writes (ties to the  *)
(* even mantissa), FormatFloat the shortest digits that ParseFloat reads   *)
(* back as the same float64.  A float64 is mant * 2^exp with mant below    *)
(* 2^53 and exp from -1074 to 971.  The arithmetic is exact, on naturals   *)
(* of any size: a natural is the sequence of its decimal digits, the       *)
(* lowest first, and zero the empty sequence.                              *)
(***************************************************************************)
Smaller(a, b) == IF a < b THEN a ELSE b
Larger(a, b) == IF a < b THEN b ELSE a

\* v without the zeros at its high end
BigTrim(v) ==
    SubSeq(v, 1, CHOOSE n \in 0..Len(v) :
                    /\ n = 0 \/ v[n] # 0
                    /\ \A k \in (n + 1)..Len(v) : v[k] = 0)

\* one pass of carries: each place keeps its last digit and takes what the
\* place below passes on
BigPass(v) ==
    [i \in 1..(Len(v) + 1) |->
        (IF i <= Len(v) THEN v[i] % 10 ELSE 0) + (IF i > 1 THEN v[i - 1] \div 10 ELSE 0)]

RECURSIVE BigSettle(_)
BigSettle(v) == IF \A i \in 1..Len(v) : v[i] <= 10 THEN v ELSE BigSettle(BigPass(v))

\* The carries of a sequence of numbers up to 10: a place that holds 9 passes
\* on the carry of the place below and takes, stride by stride, the number
\* of the nearest place below that does not hold 9; in the end a place
\* carries when it holds 10
RECURSIVE BigCarries(_, _)
BigCarries(c, stride) ==
    IF stride >= Len(c) THEN c
    ELSE BigCarries([i \in 1..Len(c) |->
                        IF c[i] = 9 /\ i > stride THEN c[i - stride] ELSE c[i]],
                    2 * stride)

BigDigits(v, c) ==
    [i \in 1..(Len(v) + 1) |->
        ((IF i <= Len(v) THEN v[i] ELSE 0) + (IF i > 1 /\ c[i - 1] = 10 THEN 1 ELSE 0)) % 10]

BigCarry(v) == BigDigits(v, BigCarries(v, 1))

\* the natural whose place i holds the number v[i]
Big(v) == BigTrim(BigCarry(BigSettle(v)))

\* m * a + c
BigScale(a, m, c) ==
    Big([i \in 1..Larger(Len(a), 1) |->
            (IF i <= Len(a) THEN m * a[i] ELSE 0) + (IF i = 1 THEN c ELSE 0)])

BigAdd(a, b) ==
    Big([i \in 1..Larger(Len(a), Len(b)) |->
            (IF i <= Len(a) THEN a[i] ELSE 0) + (IF i <= Len(b) THEN b[i] ELSE 0)])

\* the sum of a[i] * b[k + 1 - i] for i from lo to hi, by halves
RECURSIVE BigDot(_, _, _, _, _)
BigDot(a, b, k, lo, hi) ==
    IF lo = hi THEN a[lo] * b[k + 1 - lo]
    ELSE BigDot(a, b, k, lo, (lo + hi) \div 2) + BigDot(a, b, k, (lo + hi) \div 2 + 1, hi)

BigMul(a, b) ==
    IF a = <<>> \/ b = <<>> THEN <<>>
    ELSE Big([k \in 1..(Len(a) + Len(b) - 1) |->
                BigDot(a, b, k, Larger(1, k + 1 - Len(b)), Smaller(Len(a), k))])

BigSquare(a) == BigMul(a, a)

RECURSIVE BigPow(_, _)
BigPow(a, n) ==
    IF n = 0 THEN <<1>>
    ELSE IF n % 2 = 0 THEN BigSquare(BigPow(a, n \div 2))
    ELSE BigMul(a, BigSquare(BigPow(a, n \div 2)))

\* 2^e for e from zero on, 5^(-e) below: 2^e without its point
BigPower(e) == IF e >= 0 THEN BigPow(<<2>>, e) ELSE BigPow(<<5>>, 0 - e)

BigLess(a, b) ==
    \/ Len(a) < Len(b)
    \/ /\ Len(a) = Len(b)
       /\ \E i \in 1..Len(a) : a[i] < b[i] /\ \A k \in (i + 1)..Len(a) : a[k] = b[k]

\* a - 1, for a above zero
BigPred(a) ==
    LET p == CHOOSE i \in 1..Len(a) : a[i] # 0 /\ \A k \in 1..(i - 1) : a[k] = 0
    IN BigTrim([i \in 1..Len(a) |-> IF i < p THEN 9 ELSE IF i = p THEN a[i] - 1 ELSE a[i]])

\* the whole part of x * 10^f
BigWhole(x, f) ==
    IF f < 0 THEN SubSeq(x, 1 - f, Len(x))
    ELSE IF x = <<>> THEN <<>>
    ELSE [i \in 1..f |-> 0] \o x

\* the rest of x * 10^f against one half: "below", "half" or "above"
BigRest(x, f) ==
    IF f >= 0 \/ 0 - f > Len(x) THEN "below"
    ELSE IF x[0 - f] > 5 THEN "above"
    ELSE IF x[0 - f] < 5 THEN "below"
    ELSE IF \E k \in 1..(0 - f - 1) : x[k] # 0 THEN "above"
    ELSE "half"

HexLower == <<"0", "1", "2", "3", "4", "5", "6", "7", "8", "9", "a", "b", "c", "d", "e", "f">>
HexUpper == <<"0", "1", "2", "3", "4", "5", "6", "7", "8", "9", "A", "B", "C", "D", "E", "F">>
HexLetters == {"a", "b", "c", "d", "e", "f", "A", "B", "C", "D", "E", "F"}
DigitValue(c) == CHOOSE n \in 0..15 : c = HexLower[n + 1] \/ c = HexUpper[n + 1]

\* the natural that decimal digits write, the highest first
BigOfDecimal(ds) == BigTrim([i \in 1..Len(ds) |-> DigitValue(ds[Len(ds) + 1 - i])])

\* the natural that hexadecimal digits write, by halves
RECURSIVE BigOfHex(_)
BigOfHex(ds) ==
    IF Len(ds) <= 1 THEN BigOfDecimal(Dec(IF ds = <<>> THEN 0 ELSE DigitValue(ds[1])))
    ELSE BigAdd(BigMul(BigOfHex(SubSeq(ds, 1, Len(ds) \div 2)),
                       BigPow(<<6, 1>>, Len(ds) - Len(ds) \div 2)),
                BigOfHex(SubSeq(ds, Len(ds) \div 2 + 1, Len(ds))))

\* the values of a float64
NaN == [kind |-> "nan", neg |-> FALSE, mant |-> <<>>, exp |-> 0]
Inf(neg) == [kind |-> "inf", neg |-> neg, mant |-> <<>>, exp |-> 0]
Zero(neg) == [kind |-> "zero", neg |-> neg, mant |-> <<>>, exp |-> 0]
Float(neg, mant, exp) == [kind |-> "finite", neg |-> neg, mant |-> mant, exp |-> exp]

MantBits == BigPow(<<2>>, 52)
MantTop == BigPow(<<2>>, 53)

\* the float64 of mantissa q (up to 2^53) and exponent b: a mantissa of 2^53
\* is 2^52 with the next exponent, an exponent above 971 is out of range
Rounded(neg, q, b) ==
    IF q = <<>> THEN Zero(neg)
    ELSE IF q = MantTop THEN (IF b + 1 > 971 THEN Inf(neg) ELSE Float(neg, MantBits, b + 1))
    ELSE IF b > 971 THEN Inf(neg)
    ELSE Float(neg, q, b)

\* y * 10^g rounded to a natural, a half to the even one
RoundedWhole(q0, rest) ==
    IF rest = "above" \/ (rest = "half" /\ q0 # <<>> /\ q0[1] % 2 = 1)
       THEN BigScale(q0, 1, 1) ELSE q0

\* the float64 nearest x * 10^f * 2^b0, of which the whole part of x * 10^f
\* is below 2^(53 + j)
Halved(neg, x, f, b0, j) ==
    Rounded(neg, RoundedWhole(BigWhole(x, f - j), BigRest(x, f - j)), b0 + j)

ExtraBits(whole) == CHOOSE j \in 0..8 : BigLess(whole, BigPow(<<2>>, 53 + j))

Scaled(neg, x, f, b0, j) == Halved(neg, BigScale(x, 5^j, 0), f, b0, j)

Scale(neg, x, f, b0) == Scaled(neg, x, f, b0, ExtraBits(BigWhole(x, f)))

\* the float64 nearest m * 10^e10 * 2^e2 for m above zero; b0 is an exponent
\* not above the one of the result and at most 5 below it
Nearest(neg, m, e10, e2, b0) ==
    Scale(neg, BigMul(m, BigPower(e2 - b0)),
          IF e2 - b0 >= 0 THEN e10 ELSE e10 + e2 - b0, b0)

\* a number not above the logarithm to the base 2 of m * 10^e10 * 2^e2 and
\* at most 5 below its whole part
LowLog(x, e2) == 3 * x + ((x * 3219) \div 10000) - 1 + e2

Bounded(neg, m, e10, e2, low) ==
    IF low > 1024 THEN Inf(neg)
    ELSE IF low < 0 - 1082 THEN Zero(neg)
    ELSE Nearest(neg, m, e10, e2, Larger(low - 52, 0 - 1074))

Value(neg, m, e10, e2) ==
    IF m = <<>> THEN Zero(neg)
    ELSE Bounded(neg, m, e10, e2, LowLog(Len(m) - 1 + e10, e2))

\* strconv.special: the length of the name of an infinity or of NaN at the
\* head of s, 0 when there is none
commonPrefixLenIgnoreCase(s, prefix) ==
    CHOOSE n \in 0..Smaller(Len(s), Len(prefix)) :
        /\ \A k \in 1..n : s[k] \in {prefix[k], Ascii[(CHOOSE a \in 66..91 : Ascii[a] = prefix[k]) - 32]}
        /\ n = Smaller(Len(s), Len(prefix))
           \/ s[n + 1] \notin {prefix[n + 1],
                               Ascii[(CHOOSE a \in 66..91 : Ascii[a] = prefix[n + 1]) - 32]}

InfLen(n) == IF n = 8 THEN 8 ELSE IF n >= 3 THEN 3 ELSE 0

special(s) ==
    IF s = <<>> THEN [ok |-> FALSE, n |-> 0, f |-> NaN]
    ELSE IF s[1] \in {"+", "-"}
       THEN [ok |-> InfLen(commonPrefixLenIgnoreCase(Tail(s), Chars("infinity"))) > 0,
             n |-> 1 + InfLen(commonPrefixLenIgnoreCase(Tail(s), Chars("infinity"))),
             f |-> Inf(s[1] = "-")]
    ELSE IF s[1] \in {"i", "I"}
       THEN [ok |-> InfLen(commonPrefixLenIgnoreCase(s, Chars("infinity"))) > 0,
             n |-> InfLen(commonPrefixLenIgnoreCase(s, Chars("infinity"))),
             f |-> Inf(FALSE)]
    ELSE IF s[1] \in {"n", "N"}
       THEN [ok |-> commonPrefixLenIgnoreCase(s, Chars("nan")) = 3, n |-> 3, f |-> NaN]
    ELSE [ok |-> FALSE, n |-> 0, f |-> NaN]

\* the first place of s from i on whose byte is not in S, Len(s) + 1 when
\* there is none
FirstOutside(s, i, S) ==
    CHOOSE k \in i..(Len(s) + 1) :
        /\ k > Len(s) \/ s[k] \notin S
        /\ \A j \in i..(k - 1) : s[j] \in S

\* the first place from i to to - 1 that holds a point, to when none does
FirstPoint(s, i, to) ==
    CHOOSE k \in i..to :
        /\ k = to \/ s[k] = "."
        /\ \A j \in i..(k - 1) : s[j] # "."

IsNumeral(c) == c \notin {"_", "."}

\* strconv.underscoreOK: each underscore stands between two digits, the base
\* prefix counting as a digit
underscoreOK(s) ==
    LET t == IF s # <<>> /\ s[1] \in {"+", "-"} THEN Tail(s) ELSE s
        prefix == Len(t) >= 2 /\ t[1] = "0" /\ t[2] \in {"b", "B", "o", "O", "x", "X"}
        hex == prefix /\ t[2] \in {"x", "X"}
        u == IF prefix THEN Drop(t, 2) ELSE t
        digit(c) == c \in Digits \/ (hex /\ c \in HexLetters)
    IN \A k \in 1..Len(u) :
          u[k] = "_" =>
              /\ IF k = 1 THEN prefix ELSE digit(u[k - 1])
              /\ k < Len(u) /\ digit(u[k + 1])

\* the exponent that digits and underscores write: a digit counts while the
\* number is below 10000
ExponentValue(run) ==
    Val(SubSeq(SelectSeq(run, IsNumeral),
               FirstOutside(SelectSeq(run, IsNumeral), 1, {"0"}),
               Smaller(Len(SelectSeq(run, IsNumeral)),
                       FirstOutside(SelectSeq(run, IsNumeral), 1, {"0"}) + 4)))

NoFloat == [ok |-> FALSE, n |-> 0, neg |-> FALSE, base |-> 10, digits |-> <<>>,
            after |-> 0, e |-> 0]

\* strconv.readFloat.  i: the place after the sign and the base prefix;
\* point: the place of the point, or one not below m; m: the place after the
\* mantissa; end: the place after the number; e: the exponent
readNumber(s, neg, base, i, point, m, end, e) ==
    IF (\E k \in i..(end - 1) : s[k] = "_") /\ ~underscoreOK(SubSeq(s, 1, end - 1))
       THEN NoFloat
    ELSE [ok |-> TRUE, n |-> end - 1, neg |-> neg, base |-> base,
          digits |-> SelectSeq(SubSeq(s, i, m - 1), IsNumeral),
          after |-> Len(SelectSeq(SubSeq(s, point + 1, m - 1), IsNumeral)),
          e |-> e]

readExponentDigits(s, neg, base, i, point, m, j, end) ==
    readNumber(s, neg, base, i, point, m, end,
               IF s[j - 1] = "-" THEN 0 - ExponentValue(SubSeq(s, j, end - 1))
               ELSE ExponentValue(SubSeq(s, j, end - 1)))

readExponentSign(s, neg, base, i, point, m, j) ==
    IF j > Len(s) \/ s[j] \notin Digits THEN NoFloat
    ELSE readExponentDigits(s, neg, base, i, point, m, j,
                            FirstOutside(s, j, Digits \cup {"_"}))

readExponent(s, neg, base, i, point, m) ==
    IF \A k \in i..(m - 1) : ~IsNumeral(s[k]) THEN NoFloat
    ELSE IF m <= Len(s) /\ s[m] \in (IF base = 16 THEN {"p", "P"} ELSE {"e", "E"})
       THEN readExponentSign(s, neg, base, i, point, m,
                             IF m + 1 <= Len(s) /\ s[m + 1] \in {"+", "-"}
                                THEN m + 2 ELSE m + 1)
    ELSE IF base = 16 THEN NoFloat
    ELSE readNumber(s, neg, base, i, point, m, m, 0)

readPoint(s, neg, base, i, m, point) ==
    readExponent(s, neg, base, i, point,
                 IF point < m THEN FirstPoint(s, point + 1, m) ELSE m)

readMantissa(s, neg, base, i, m) == readPoint(s, neg, base, i, m, FirstPoint(s, i, m))

readBase(s, neg, i) ==
    IF i + 2 <= Len(s) /\ s[i] = "0" /\ s[i + 1] \in {"x", "X"}
       THEN readMantissa(s, neg, 16, i + 2,
                         FirstOutside(s, i + 2, Digits \cup HexLetters \cup {"_", "."}))
    ELSE readMantissa(s, neg, 10, i, FirstOutside(s, i, Digits \cup {"_", "."}))

readFloat(s) ==
    IF s = <<>> THEN NoFloat
    ELSE readBase(s, s[1] = "-", IF s[1] \in {"+", "-"} THEN 2 ELSE 1)

\* strconv.atof64 on what readFloat has read
atof64(r) ==
    IF r.base = 16 THEN Value(r.neg, BigOfHex(r.digits), 0, r.e - 4 * r.after)
    ELSE Value(r.neg, BigOfDecimal(r.digits), r.e - r.after, 0)

parseFloatPrefix(s, named, r) ==
    IF named.ok THEN (IF named.n = Len(s) THEN named.f ELSE Zero(FALSE))
    ELSE IF r.ok /\ r.n = Len(s) THEN atof64(r)
    ELSE Zero(FALSE)

\* strconv.ParseFloat(s, 64), the value it returns with or without an error
ParseFloat(s) == parseFloatPrefix(s, special(s), readFloat(s))

\* strconv's decimal: digits d, the highest first and the last not 0, that
\* write the number 0.d * 10^dp.  Decimal(v, e, low) is the decimal of
\* v * 10^e for e below zero and of v from zero on, low being the lowest
\* place of v that does not hold 0.
Decimal(v, e, low) ==
    [d |-> [i \in 1..(Len(v) + 1 - low) |-> v[Len(v) + 1 - i]],
     dp |-> IF v = <<>> THEN 0 ELSE IF e < 0 THEN Len(v) + e ELSE Len(v)]

DecimalOf(v, e) == Decimal(v, e, FirstOutside(v, 1, {0}))

\* decimal.RoundDown, RoundUp and Round to nd digits
Trimmed(d, dp) ==
    [d |-> SubSeq(d, 1, CHOOSE n \in 0..Len(d) :
                            /\ n = 0 \/ d[n] # 0
                            /\ \A k \in (n + 1)..Len(d) : d[k] = 0),
     dp |-> IF \A k \in 1..Len(d) : d[k] = 0 THEN 0 ELSE dp]

RoundDown(a, nd) ==
    IF nd < 0 \/ nd >= Len(a.d) THEN a ELSE Trimmed(SubSeq(a.d, 1, nd), a.dp)

RoundUp(a, nd) ==
    IF nd < 0 \/ nd >= Len(a.d) THEN a
    ELSE IF \A i \in 1..nd : a.d[i] = 9 THEN [d |-> <<1>>, dp |-> a.dp + 1]
    ELSE LET i == CHOOSE k \in 1..nd : a.d[k] < 9 /\ \A n \in (k + 1)..nd : a.d[n] = 9
         IN [d |-> SubSeq(a.d, 1, i - 1) \o <<a.d[i] + 1>>, dp |-> a.dp]

shouldRoundUp(a, nd) ==
    IF nd < 0 \/ nd >= Len(a.d) THEN FALSE
    ELSE IF a.d[nd + 1] = 5 /\ nd + 1 = Len(a.d) THEN nd > 0 /\ a.d[nd] % 2 # 0
    ELSE a.d[nd + 1] >= 5

Round(a, nd) ==
    IF nd < 0 \/ nd >= Len(a.d) THEN a
    ELSE IF shouldRoundUp(a, nd) THEN RoundUp(a, nd) ELSE RoundDown(a, nd)

\* strconv.roundShortest, the loop over the digits of upper.  ui: the digit
\* of upper; delta: upperdelta; l, m, u: the digits of lower, d and upper
\* at that place
RECURSIVE shortestLoop(_, _, _, _, _, _)

shortestChoice(d, lower, upper, inclusive, ui, delta, okdown) ==
    LET mi == ui - upper.dp + d.dp
        okup == delta > 0 /\ (inclusive \/ delta > 1 \/ ui + 1 < Len(upper.d))
    IN IF okdown /\ okup THEN Round(d, mi + 1)
       ELSE IF okdown THEN RoundDown(d, mi + 1)
       ELSE IF okup THEN RoundUp(d, mi + 1)
       ELSE shortestLoop(d, lower, upper, inclusive, ui + 1, delta)

shortestDigits(d, lower, upper, inclusive, ui, upperdelta, l, m, u, li) ==
    shortestChoice(d, lower, upper, inclusive, ui,
                   IF upperdelta = 0 /\ m + 1 < u THEN 2
                   ELSE IF upperdelta = 0 /\ m # u THEN 1
                   ELSE IF upperdelta = 1 /\ (m # 9 \/ u # 0) THEN 2
                   ELSE upperdelta,
                   l # m \/ (inclusive /\ li + 1 = Len(lower.d)))

shortestAt(d, lower, upper, inclusive, ui, upperdelta, mi, li) ==
    shortestDigits(d, lower, upper, inclusive, ui, upperdelta,
                   IF li >= 0 /\ li < Len(lower.d) THEN lower.d[li + 1] ELSE 0,
                   IF mi >= 0 THEN d.d[mi + 1] ELSE 0,
                   IF ui < Len(upper.d) THEN upper.d[ui + 1] ELSE 0,
                   li)

shortestLoop(d, lower, upper, inclusive, ui, upperdelta) ==
    IF ui - upper.dp + d.dp >= Len(d.d) THEN d
    ELSE shortestAt(d, lower, upper, inclusive, ui, upperdelta,
                    ui - upper.dp + d.dp, ui - upper.dp + lower.dp)

\* strconv.roundShortest on the decimal d of a float64 of exponent exp, lower
\* and upper being the decimals of its bounds
shortest(exp, d, lower, upper, inclusive) ==
    IF exp > 0 - 1074 /\ 332 * (d.dp - Len(d.d)) >= 100 * exp THEN d
    ELSE shortestLoop(d, lower, upper, inclusive, 0, 0)

\* the same with the three numbers as multiples m - 1, m and m + up of
\* power * 10^e (of power, from zero on)
shortestOf(exp, m, up, e, power, inclusive) ==
    shortest(exp, DecimalOf(BigMul(m, power), e),
             DecimalOf(BigMul(BigPred(m), power), e),
             DecimalOf(BigMul(BigScale(m, 1, up), power), e), inclusive)

\* strconv.roundShortest for the float64 mant * 2^exp, mant above zero: the
\* bounds are halfway to the next float64 on either side, which are
\* (2 * mant - 1) * 2^(exp - 1) and (2 * mant + 1) * 2^(exp - 1), but for the
\* lower bound when mant is 2^52 and exp is not the least, which is
\* (4 * mant - 1) * 2^(exp - 2)
roundShortest(mant, exp) ==
    IF BigLess(MantBits, mant) \/ exp = 0 - 1074
       THEN shortestOf(exp, BigScale(mant, 2, 0), 1, exp - 1, BigPower(exp - 1),
                       mant[1] % 2 = 0)
    ELSE shortestOf(exp, BigScale(mant, 4, 0), 2, exp - 2, BigPower(exp - 2),
                    mant[1] % 2 = 0)

\* strconv.fmtF with the precision of the shortest digits, max(nd - dp, 0)
fmtF(neg, d) ==
    (IF neg THEN <<"-">> ELSE <<>>)
    \o (IF d.dp > 0
           THEN [i \in 1..d.dp |-> IF i <= Len(d.d) THEN HexLower[d.d[i] + 1] ELSE "0"]
           ELSE <<"0">>)
    \o (IF Len(d.d) - d.dp > 0
           THEN <<".">> \o [i \in 1..(Len(d.d) - d.dp) |->
                              IF d.dp + i >= 1 THEN HexLower[d.d[d.dp + i] + 1] ELSE "0"]
           ELSE <<>>)

\* strconv.FormatFloat(f, 'f', -1, 64)
FormatFloat(f) ==
    IF f.kind = "nan" THEN Chars("NaN")
    ELSE IF f.kind = "inf" THEN Chars(IF f.neg THEN "-Inf" ELSE "+Inf")
    ELSE IF f.kind = "zero" THEN fmtF(f.neg, [d |-> <<>>, dp |-> 0])
    ELSE fmtF(f.neg, roundShortest(f.mant, f.exp))

\* Result.String(): the characters of a string, the raw text of an array or
\* object and of a number of digits only (after a minus sign, if any), any
\* other number as FormatFloat writes the float64 that ParseFloat reads from
\* its raw text, true, false, "" for null and for a value that does not exist
String(t) ==
    CASE t.Type = "String" -> t.Str
      [] t.Type = "JSON" -> t.Raw
      [] t.Type = "True" -> <<"t", "r", "u", "e">>
      [] t.Type = "False" -> <<"f", "a", "l", "s", "e">>
      [] t.Type = "Number" ->
            IF \A k \in (IF t.Raw[1] = "-" THEN 2 ELSE 1)..Len(t.Raw) : t.Raw[k] \in Digits
               THEN t.Raw ELSE FormatFloat(ParseFloat(t.Raw))
      [] OTHER -> <<>>

\* lines 295-296: strings.TrimPrefix(line, ")]}'") and strings.TrimSpace
Marker == <<")", "]", "}", "'">>
TrimPrefix(line, prefix) == IF IsPrefix(prefix, line) THEN Drop(line, Len(prefix)) ELSE line

\* unicode.IsSpace: the white space of Unicode, each as its bytes
WhiteSpace ==
    {<<Byte(n)>> : n \in (9..13) \cup {32}}
    \cup {<<Byte(194), Byte(133)>>, <<Byte(194), Byte(160)>>,
          <<Byte(225), Byte(154), Byte(128)>>, <<Byte(226), Byte(129), Byte(159)>>,
          <<Byte(227), Byte(128), Byte(128)>>}
    \cup {<<Byte(226), Byte(128), Byte(n)>> : n \in (128..138) \cup {168, 169, 175}}

IsSuffix(s, t) == Len(s) <= Len(t) /\ SubSeq(t, Len(t) - Len(s) + 1, Len(t)) = s

RECURSIVE TrimLeft(_)
TrimLeft(s) ==
    LET ws == {w \in WhiteSpace : IsPrefix(w, s)}
    IN IF ws = {} THEN s ELSE TrimLeft(Drop(s, Len(CHOOSE w \in ws : TRUE)))

RECURSIVE TrimRight(_)
TrimRight(s) ==
    LET ws == {w \in WhiteSpace : IsSuffix(w, s)}
    IN IF ws = {} THEN s
       ELSE TrimRight(SubSeq(s, 1, Len(s) - Len(CHOOSE w \in ws : TRUE)))

TrimSpace(s) == TrimRight(TrimLeft(s))

\* lines 343-356: the call of onChunk, or none
EachCall(st, deltaText, deltaThoughts, text) ==
    IF Fired(deltaText, deltaThoughts, text)
       THEN Append(st.deltas, [text |-> text,
                               thought |-> deltaThoughts])
       ELSE st.deltas

EachDeltas(st, deltaText, deltaThoughts) ==
    EachCall(st, deltaText, deltaThoughts, EmittedText(deltaText, deltaThoughts))

\* lines 319-357, the body of candidates.ForEach for one candidate.
\* st: lastText, lastThoughts and the onChunk calls made so far.
EachCandidate(rawText, rawThoughts, st) ==
    [lastText |-> Remember(rawText, st.lastText),
     lastThoughts |-> Remember(rawThoughts, st.lastThoughts),
     deltas |-> EachDeltas(st, Delta(rawText, st.lastText),
                           Delta(rawThoughts, st.lastThoughts))]

\* lines 316-358, candidates.ForEach on each candidate in turn
RECURSIVE ForEachCandidate(_, _)
ForEachCandidate(cands, st) ==
    IF cands = <<>> THEN st
    ELSE ForEachCandidate(Tail(cands),
            EachCandidate(String(Get(Head(cands).Raw, <<1, 0>>)),
                          String(Get(Head(cands).Raw, <<37, 0, 0>>)), st))

\* lines 314-360: the candidates of an item's payload
ItemCandidates(candidates, st) ==
    IF ResultIsArray(candidates) THEN ForEachCandidate(ForEach(candidates), st) ELSE st

\* lines 308-314: an item without a payload is passed over
ItemData(dataStr, st) ==
    IF dataStr = <<>> THEN st ELSE ItemCandidates(Get(Parse(dataStr).Raw, <<4>>), st)

\* lines 306-361, outer.ForEach on each item of the line in turn
RECURSIVE ForEachItem(_, _)
ForEachItem(items, st) ==
    IF items = <<>> THEN st
    ELSE ForEachItem(Tail(items), ItemData(String(Get(Head(items).Raw, <<2>>)), st))

\* lines 301-361: the line read as a value
ScanOuter(outer, st) ==
    IF ~ResultIsArray(outer) THEN st ELSE ForEachItem(ForEach(outer), st)

\* lines 297-361: an empty line is passed over
ScanTrimmed(line, st) == IF line = <<>> THEN st ELSE ScanOuter(Parse(line), st)

\* lines 295-361: one round of the scanner's loop
ScanLine(text, st) == ScanTrimmed(TrimSpace(TrimPrefix(text, Marker)), st)

\* The bodies: a frame of one item whose payload, written as a string, holds
\* pad nulls and then the list of one candidate.  A "flat" candidate is
\* [[text,0,null,null,null,null,null]]; a "nested" one is ["rc",[text]].
Layouts == {"flat", "nested"}
WireTexts == {<<>>, <<"H", "i">>, <<"<", "\n">>}
Nulls(n) == [i \in 1..n |-> JNull]

Candidate(layout, text) ==
    IF layout = "flat"
       THEN JArr(<<JArr(<<JStr(text), JNum(<<"0">>)>> \o Nulls(5))>>)
       ELSE JArr(<<JStr(<<"r", "c">>), JArr(<<JStr(text)>>)>>)

Payload(pad, layout, text) ==
    JArr(Nulls(pad) \o <<JArr(<<Candidate(layout, text)>>)>>)

Frame(pad, layout, text) ==
    JArr(<<JArr(<<JNull, JNull, JStr(Enc(Payload(pad, layout, text)))>>)>>)

NoWire == [pc |-> "none", marker |-> FALSE, pad |-> 0, layout |-> "", text |-> <<>>,
           lines |-> <<>>, pos |-> 0,
           lastText |-> <<>>, lastThoughts |-> <<>>, deltas |-> <<>>]

\* A response body arrives: the marker line or none, then one frame
WireBody(marker, pad, layout, text) ==
    /\ wire.pc = "none"
    /\ wire' = [NoWire EXCEPT
                  !.pc = "scanning", !.marker = marker, !.pad = pad, !.layout = layout,
                  !.text = text,
                  !.lines = (IF marker THEN <<Marker>> ELSE <<>>)
                            \o <<Enc(Frame(pad, layout, text))>>]
    /\ UNCHANGED <<esc, img, ct, otherVars>>

\* the scanner one line on, with what the loop body left in st
Scanned(w, st) ==
    [w EXCEPT !.pos = @ + 1, !.lastText = st.lastText,
              !.lastThoughts = st.lastThoughts, !.deltas = st.deltas]

\* line 293: scanner.Scan() gives the next line, and the loop body runs on it
WireScan ==
    /\ wire.pc = "scanning"
    /\ wire.pos < Len(wire.lines)
    /\ wire' = Scanned(wire, ScanLine(wire.lines[wire.pos + 1],
                                      [lastText |-> wire.lastText,
                                       lastThoughts |-> wire.lastThoughts,
                                       deltas |-> wire.deltas]))
    /\ UNCHANGED <<esc, img, ct, otherVars>>

\* line 293: scanner.Scan() finds the body at its end
WireEnd ==
    /\ wire.pc = "scanning"
    /\ wire.pos = Len(wire.lines)
    /\ wire' = [wire EXCEPT !.pc = "done"]
    /\ UNCHANGED <<esc, img, ct, otherVars>>

(***************************************************************************)
(* adapter.sizeToAspectRatio (image_handler.go 28-49).  A size string is   *)
(* the sequence of its characters.                                         *)
(***************************************************************************)
\* the string "<w>x<h>"
Size(w, h) == Dec(w) \o <<"x">> \o Dec(h)

\* image_handler.go 28-42: var aspectRatioMap
aspectRatioMap ==
    { [size |-> Size(1024, 1024), ratio |-> "1:1"],
      [size |-> Size(512, 512),   ratio |-> "1:1"],
      [size |-> Size(256, 256),   ratio |-> "1:1"],
      [size |-> Size(1024, 768),  ratio |-> "4:3"],
      [size |-> Size(1280, 960),  ratio |-> "4:3"],
      [size |-> Size(768, 1024),  ratio |-> "3:4"],
      [size |-> Size(960, 1280),  ratio |-> "3:4"],
      [size |-> Size(1792, 1024), ratio |-> "16:9"],
      [size |-> Size(1920, 1080), ratio |-> "16:9"],
      [size |-> Size(1024, 1792), ratio |-> "9:16"],
      [size |-> Size(1080, 1920), ratio |-> "9:16"],
      [size |-> Size(1792, 768),  ratio |-> "21:9"],
      [size |-> Size(2560, 1080), ratio |-> "21:9"] }

\* a faulty lookup without the fallback: "" for a size that is not listed
sizeToAspectRatioNoFallback(size) ==
    IF \E e \in aspectRatioMap : e.size = size
       THEN (CHOOSE e \in aspectRatioMap : e.size = size).ratio
       ELSE ""
\* image_handler.go 44-49
sizeToAspectRatio(size) ==
    IF \E e \in aspectRatioMap : e.size = size
       THEN (CHOOSE e \in aspectRatioMap : e.size = size).ratio
       ELSE "1:1"

\* The size strings given to it: every pair of the widths and heights of the
\* table and of 999, the empty string, and strings that are no pair
Dims == {256, 512, 768, 960, 999, 1024, 1080, 1280, 1792, 1920, 2560}
Sizes == {Size(w, h) : w \in Dims, h \in Dims}
            \cup {<<>>, <<"x">>, Dec(1024), Size(1024, 1024) \o <<" ">>}

NoImg == [pc |-> "none", size |-> <<>>, ratio |-> ""]

ImgSize(size) ==
    /\ img.pc = "none"
    /\ img' = [NoImg EXCEPT !.pc = "given", !.size = size]
    /\ UNCHANGED <<esc, wire, ct, otherVars>>

\* image_handler.go 44-49
ImgRatio ==
    /\ img.pc = "given"
    /\ img' = [img EXCEPT !.pc = "done", !.ratio = sizeToAspectRatio(img.size)]
    /\ UNCHANGED <<esc, wire, ct, otherVars>>

(***************************************************************************)
(* adapter.ClaudeCountTokensHandler (image_handler.go 502-534), one request *)
(***************************************************************************)
\* len(s) of a Go string: its bytes; "U" stands for a character that UTF-8
\* writes in two bytes, "a" for one of a single byte
Bytes(ch) == IF ch = "U" THEN 2 ELSE 1
RECURSIVE len(_)
len(s) == IF s = <<>> THEN 0 ELSE Bytes(Head(s)) + len(Tail(s))

\* The content of a message: a JSON string, or a list of content blocks
StrContent(t) == [str |-> TRUE, text |-> t, blocks |-> <<>>]
BlockContent(b) == [str |-> FALSE, text |-> <<>>, blocks |-> b]
CtTexts == SeqsUpTo({"a"}, MaxCtLen) \cup {<<"U", "U">>}
CtBlocks == { [Type |-> "text", Text |-> <<"a", "a", "a">>],
              [Type |-> "text", Text |-> <<"a", "a">>],
              [Type |-> "image", Text |-> <<"a", "a", "a", "a">>] }
Contents == {StrContent(t) : t \in CtTexts}
               \cup {BlockContent(b) : b \in SeqsUpTo(CtBlocks, 2)}

\* part_002 179-191, claude.ParseMessageContent: the blocks and the string
ParseMessageContent(content) ==
    IF content.str THEN [blocks |-> <<>>, strContent |-> content.text]
    ELSE [blocks |-> content.blocks, strContent |-> <<>>]

\* lines 520-526: what the blocks of a message add to tokenCount
RECURSIVE BlockTokens(_)
BlockTokens(blocks) ==
    IF blocks = <<>> THEN 0
    ELSE (IF Head(blocks).Type = "text" THEN len(Head(blocks).Text) \div 4 ELSE 0)
         + BlockTokens(Tail(blocks))

\* lines 516-528: tokenCount after the loop over req.Messages
RECURSIVE CountTokens(_)
CountTokens(messages) ==
    IF messages = <<>> THEN 0
    ELSE LET parsed == ParseMessageContent(Head(messages))
         IN (IF parsed.strContent # <<>> THEN len(parsed.strContent) \div 4
             ELSE BlockTokens(parsed.blocks))
            + CountTokens(Tail(messages))

InitCt == [pc |-> "start", messages |-> <<>>, status |-> 0, input_tokens |-> 0]

\* A request arrives; lines 504-514: a body that does not bind is answered 400
CtBind(ok, messages) ==
    /\ ct.pc = "start"
    /\ ct' = IF ok THEN [ct EXCEPT !.pc = "bound", !.messages = messages]
             ELSE [ct EXCEPT !.pc = "done", !.status = 400]
    /\ UNCHANGED <<esc, wire, img, otherVars>>

\* lines 516-532: the count and the answer 200
CtAnswer ==
    /\ ct.pc = "bound"
    /\ ct' = [ct EXCEPT !.pc = "done", !.status = 200,
                        !.input_tokens = CountTokens(ct.messages)]
    /\ UNCHANGED <<esc, wire, img, otherVars>>

(***************************************************************************)
(* gemini.Client.Init (unnamed/part_000 73-124) on a client NewClient has  *)
(* just returned.  The landing page is the sequence of its quoted fields,   *)
(* key and value; the text between them matches none of the patterns.       *)
(***************************************************************************)
PageKeys == {"SNlM0e", "bl", "data-bl", "f.sid"}
\* a value is a sequence of characters that holds no quote
PageValues == {<<>>, <<"v">>, <<"\n">>}
PageFields == [key : PageKeys, val : PageValues]
Pages == SeqsUpTo(PageFields, MaxFields)
\* what httpClient.Do gives: no response, or a response with this status
DoOutcomes == {[failed |-> TRUE, StatusCode |-> 0]}
              \cup {[failed |-> FALSE, StatusCode |-> c] : c \in {200, 302, 500}}

\* (.*?)" : the dot matches no newline, and the group ends at the first quote
GroupMatches(v) == \A k \in 1..Len(v) : v[k] # "\n"

\* regexp.FindStringSubmatch for the pattern of one key: the leftmost match
Matches(body, key) == {k \in 1..Len(body) : body[k].key = key /\ GroupMatches(body[k].val)}

FindStringSubmatch(body, key) ==
    IF Matches(body, key) = {} THEN [found |-> FALSE, group |-> <<>>]
    ELSE [found |-> TRUE,
          group |-> body[CHOOSE k \in Matches(body, key) :
                             \A m \in Matches(body, key) : k <= m].val]

FallbackBL == <<"boq_assistant-bard-web-server_20240319.09_p0">>

\* A faulty fallback that keeps the label as extracted (C32 does not hold of it)
VersionBLAsExtracted(bl) == bl
\* lines 107-112
VersionBLOrFallback(bl) == IF bl = <<>> THEN FallbackBL ELSE bl

\* lines 96-105
ExtractBL(body, old) ==
    LET matchBL == FindStringSubmatch(body, "bl")
        matchBL2 == FindStringSubmatch(body, "data-bl")
    IN IF matchBL.found THEN matchBL.group
       ELSE IF matchBL2.found THEN matchBL2.group
       ELSE old

NewIni == [pc |-> "new", do |-> [failed |-> FALSE, StatusCode |-> 0], body |-> <<>>, err |-> "",
           SNlM0e |-> <<>>, VersionBL |-> <<>>, FSID |-> <<>>]

\* lines 73-124, the whole call
ClientInit(do, body) ==
    /\ ini.pc = "new"
    /\ LET matchSN == FindStringSubmatch(body, "SNlM0e")
           matchSID == FindStringSubmatch(body, "f.sid")
           called == [ini EXCEPT !.pc = "returned", !.do = do, !.body = body]
       IN ini' =
            IF do.failed THEN [called EXCEPT !.err = "visit"]
            ELSE IF do.StatusCode # 200 THEN [called EXCEPT !.err = "status"]
            ELSE IF ~matchSN.found THEN [called EXCEPT !.err = "token"]
            ELSE [called EXCEPT
                    !.SNlM0e = matchSN.group,
                    !.VersionBL = VersionBLOrFallback(ExtractBL(body, ini.VersionBL)),
                    !.FSID = IF matchSID.found THEN matchSID.group ELSE ini.FSID]
    /\ UNCHANGED iniOthers

\* main.go 153: the next attempt builds a new client
ClientAgain ==
    /\ ini.pc = "returned"
    /\ ini' = NewIni
    /\ UNCHANGED iniOthers

(***************************************************************************)
(* gemini.BuildGeneratePayload (internal/gemini/payload.go 36-85).  A JSON  *)
(* array under construction is the sequence of the JSON texts of its items; *)
(* the strings hold no control character, no character above 0x7f and none  *)
(* of < > &, which sjson writes as \u escapes.                              *)
(***************************************************************************)
\* the items written as an array, with sep after each comma
ArrayText(items, sep) ==
    <<"[">> \o Flat([i \in 1..Len(items) |->
                       IF i = 1 THEN items[i] ELSE <<",">> \o sep \o items[i]])
            \o <<"]">>

\* sjson.SetRaw(json, "<i>", raw) on an array: item i is replaced, or the array
\* is filled with null up to i and raw appended
SetRaw(items, i, raw) ==
    IF i < Len(items) THEN [items EXCEPT ![i + 1] = raw]
    ELSE items \o [k \in 1..(i - Len(items)) |-> Enc(JNull)] \o <<raw>>

\* sjson.Set(json, "<i>", value)
Set(items, i, value) == SetRaw(items, i, Enc(value))

\* lines 37-50: items 0 .. n-1 of imagesJSON
RECURSIVE ImagesJSON(_, _)
ImagesJSON(files, n) ==
    IF n = 0 THEN <<>>
    ELSE LET f == files[n]
             urlArr == Set(Set(<<>>, 0, JStr(f.URL)), 1, JNum(<<"1">>))
             item == Set(SetRaw(<<>>, 0, ArrayText(urlArr, <<>>)), 1, JStr(f.FileName))
         IN SetRaw(ImagesJSON(files, n - 1), n - 1, ArrayText(item, <<>>))

\* lines 52-59
MsgStruct(prompt, files) ==
    LET m0 == Set(<<>>, 0, JStr(prompt))
        m1 == Set(m0, 1, JNum(<<"0">>))
        m2 == Set(m1, 2, JNull)
        m3 == SetRaw(m2, 3, ArrayText(ImagesJSON(files, Len(files)), <<>>))
        m4 == Set(m3, 4, JNull)
        m5 == Set(m4, 5, JNull)
    IN Set(m5, 6, JNull)

NoMeta == [nil |-> TRUE, CID |-> <<>>, RID |-> <<>>, RCID |-> <<>>]

\* A faulty padding that leaves the streaming flag at index 6 (C33 does not
\* hold of it)
PadAndFlagShort(inner) ==
    LET i3 == Set(inner, 3, JNull)
        i4 == Set(i3, 4, JNull)
        i5 == Set(i4, 5, JNull)
    IN Set(i5, 6, JNum(<<"1">>))
\* lines 76-80: null at 3 .. 6 and the flag at 7
PadAndFlag(inner) ==
    LET i3 == Set(inner, 3, JNull)
        i4 == Set(i3, 4, JNull)
        i5 == Set(i4, 5, JNull)
        i6 == Set(i5, 6, JNull)
    IN Set(i6, 7, JNum(<<"1">>))

\* lines 36-85; reqID is not used
BuildGeneratePayload(prompt, reqID, files, meta) ==
    LET in0 == SetRaw(<<>>, 0, ArrayText(MsgStruct(prompt, files), <<>>))
        in1 == Set(in0, 1, JNull)
        metaArr == Set(Set(Set(<<>>, 0, JStr(meta.CID)), 1, JStr(meta.RID)), 2, JStr(meta.RCID))
        in2 == IF ~meta.nil THEN SetRaw(in1, 2, ArrayText(metaArr, <<>>))
               ELSE Set(in1, 2, JNull)
        inner == ArrayText(PadAndFlag(in2), <<>>)
        outer == <<Enc(JNull), Enc(JStr(<<>>)), Enc(JNull), Enc(JNull)>>
    IN ArrayText(Set(outer, 1, JStr(inner)), <<" ">>)

Prompts == {<<>>, <<"H", "i">>, <<"\"">>, <<"\\", "n">>}
FileDatas == {[URL |-> <<"u">>, FileName |-> <<"f">>],
                [URL |-> <<"/", "\"">>, FileName |-> <<>>]}
Metas == {NoMeta,
          [nil |-> FALSE, CID |-> <<"c">>, RID |-> <<"r">>, RCID |-> <<"x">>],
          [nil |-> FALSE, CID |-> <<>>, RID |-> <<>>, RCID |-> <<>>]}

NoPay == [pc |-> "idle", prompt |-> <<>>, reqID |-> 0, files |-> <<>>, meta |-> NoMeta,
          out |-> <<>>]

\* the caller has its arguments
PayCall(prompt, reqID, files, meta) ==
    /\ pay.pc = "idle"
    /\ pay' = [pay EXCEPT !.pc = "called", !.prompt = prompt, !.reqID = reqID,
                          !.files = files, !.meta = meta]
    /\ UNCHANGED payOthers

\* lines 36-85
PayReturn ==
    /\ pay.pc = "called"
    /\ pay' = [pay EXCEPT !.pc = "returned",
                 !.out = BuildGeneratePayload(pay.prompt, pay.reqID, pay.files, pay.meta)]
    /\ UNCHANGED payOthers

(***************************************************************************)
(* adapter.ChatCompletionHandler (handler.go 229-282): the non-streaming   *)
(* branch and the streaming branch, each run on the same upstream body.    *)
(* Each branch calls parseGeminiResponse itself, so each has its own       *)
(* lastText and lastThoughts.                                              *)
(***************************************************************************)
\* A line of an upstream body: its kind and, when it is read as an array, the
\* text and the thought of its candidate
BodyLines ==
    [kind : {"array", "cut"}, rawText : StreamTexts, rawThoughts : Thoughts]
      \cup [kind : {"blank", "other"}, rawText : {<<>>}, rawThoughts : {<<>>}]

NoScan == [pos |-> 0, lastText |-> <<>>, lastThoughts |-> <<>>]
NoFull == [fullText |-> <<>>, fullThinking |-> <<>>]
NoCall == [fired |-> FALSE, text |-> <<>>, thought |-> <<>>]

\* body: the lines the upstream has sent; plain, streamed: the scanner of each
\* branch; full: the two builders of lines 230-231; message: the message of the
\* c.JSON answer; w: the chunks written
InitCmp ==
    [pc |-> "plain", body |-> <<>>,
     plain |-> NoScan, full |-> NoFull,
     message |-> [content |-> <<>>, reasoning_content |-> <<>>],
     streamed |-> NoScan, w |-> <<>>]

\* handler.go 292-361, one turn of the scanner loop: the scanner after the line
\* and the call of onChunk it makes, if any
LineCall(deltaText, deltaThoughts, text) ==
    IF Fired(deltaText, deltaThoughts, text)
       THEN [fired |-> TRUE, text |-> text, thought |-> deltaThoughts]
       ELSE NoCall

LineDeltas(deltaText, deltaThoughts) ==
    LineCall(deltaText, deltaThoughts, EmittedText(deltaText, deltaThoughts))

ReadBodyLine(line, scan) ==
    IF line.kind # "blank" /\ IsArray(line.kind)
       THEN [scan |-> [pos |-> scan.pos + 1,
                       lastText |-> Remember(line.rawText, scan.lastText),
                       lastThoughts |-> Remember(line.rawThoughts, scan.lastThoughts)],
             call |-> LineDeltas(Delta(line.rawText, scan.lastText),
                                 Delta(line.rawThoughts, scan.lastThoughts))]
       ELSE [scan |-> [scan EXCEPT !.pos = @ + 1], call |-> NoCall]

\* A faulty callback that keeps the latest delta only (C39 does not hold of it)
AccumulateLatest(full, text, thought) ==
    [fullText |-> text, fullThinking |-> thought]
\* handler.go 233-236: the callback of the non-streaming branch
Accumulate(full, text, thought) ==
    [fullText |-> full.fullText \o text, fullThinking |-> full.fullThinking \o thought]

\* lines 233-236: the upstream sends the next line of the body to the
\* non-streaming request, whose parseGeminiResponse reads it
CmpPlainLine(line) ==
    /\ cmp.pc = "plain"
    /\ Len(cmp.body) < MaxBodyLines
    /\ LET r == ReadBodyLine(line, cmp.plain)
       IN cmp' = [cmp EXCEPT
                    !.body = Append(@, line),
                    !.plain = r.scan,
                    !.full = IF r.call.fired
                                THEN Accumulate(@, r.call.text, r.call.thought) ELSE @]
    /\ UNCHANGED cmpOthers

\* lines 238-256: the body has ended; c.JSON(200, resp)
CmpPlainEnd ==
    /\ cmp.pc = "plain"
    /\ cmp.plain.pos = Len(cmp.body)
    /\ cmp' = [cmp EXCEPT !.pc = "branch",
                 !.message = [content |-> cmp.full.fullText,
                              reasoning_content |-> cmp.full.fullThinking]]
    /\ UNCHANGED cmpOthers

\* lines 259-266: the streaming request, to which the upstream sends the same
\* body; the role chunk
CmpStreamBranch ==
    /\ cmp.pc = "branch"
    /\ cmp' = [cmp EXCEPT !.pc = "streaming", !.w = sendSSERole(@)]
    /\ UNCHANGED cmpOthers

\* lines 268-279: parseGeminiResponse on the next line, streaming
CmpStreamLine ==
    /\ cmp.pc = "streaming"
    /\ cmp.streamed.pos < Len(cmp.body)
    /\ LET r == ReadBodyLine(cmp.body[cmp.streamed.pos + 1], cmp.streamed)
       IN cmp' = [cmp EXCEPT
                    !.streamed = r.scan,
                    !.w = IF r.call.fired
                             THEN onChunk(@, r.call.text, r.call.thought) ELSE @]
    /\ UNCHANGED cmpOthers

\* lines 281-283: the body has ended; "data: [DONE]"
CmpStreamEnd ==
    /\ cmp.pc = "streaming"
    /\ cmp.streamed.pos = Len(cmp.body)
    /\ cmp' = [cmp EXCEPT !.pc = "done", !.w = Append(@, DONE)]
    /\ UNCHANGED cmpOthers

(***************************************************************************)
(* The response bodies of one request (handler.go 217-223 and 669-674;     *)
(* image_handler.go 106-123 and 396-408).  Every StreamGenerateContent     *)
(* that returns no error returns a body, which the handler is to close.    *)
(***************************************************************************)
\* The handler and the branch it takes: ChatCompletionHandler (streaming or
\* not), handleImageChatRequest, ClaudeMessagesHandler (streaming or not) and
\* ImageGenerationHandler
Paths == {"chat stream", "chat plain", "chat image", "claude stream", "claude plain",
          "images"}

\* What reading the body gives: for handleImageChatRequest no image URL, no
\* image downloaded, or the images; for the others the answer
ReadOutcomes == {"no images", "not downloaded", "answered"}

\* bodies: per body returned, the Close calls made on it; deferred: the bodies
\* named by the defer statements executed, in their order; N, i: req.N and the
\* loop variable of ImageGenerationHandler; images, errors: lengths of its lists
NoBod ==
    [pc |-> "idle", path |-> "none", N |-> 0, i |-> 0, bodies |-> <<>>,
     deferred |-> <<>>, images |-> 0, errors |-> 0, status |-> 0]

\* respBody.Close() on body k
Close(bodies, k) == [bodies EXCEPT ![k] = @ + 1]

\* StreamGenerateContent returns a body and no error
Opened(b) == [b EXCEPT !.bodies = Append(@, 0)]

\* handler.go 223 and 674, image_handler.go 408: defer respBody.Close() on the
\* body just returned
DeferClose(b) == [b EXCEPT !.deferred = Append(@, Len(b.bodies))]

\* The handler returns: the deferred calls run, the last one first
RECURSIVE RunDeferred(_)
RunDeferred(b) ==
    IF b.deferred = <<>> THEN b
    ELSE RunDeferred([b EXCEPT
                        !.bodies = Close(@, b.deferred[Len(b.deferred)]),
                        !.deferred = SubSeq(@, 1, Len(@) - 1)])

\* A faulty loop body that closes the body only when it held an image (C40 does
\* not hold of it)
CloseAfterExtractFound(b, extracted) ==
    IF extracted > 0
       THEN [b EXCEPT !.bodies = Close(@, Len(@)), !.images = @ + extracted]
       ELSE [b EXCEPT !.errors = @ + 1]
\* image_handler.go 114-122: extractImagesFromResponse, which gives extracted
\* images, respBody.Close() and the two lists
CloseAfterExtract(b, extracted) ==
    LET c == [b EXCEPT !.bodies = Close(@, Len(@))]
    IN IF extracted > 0 THEN [c EXCEPT !.images = @ + extracted]
       ELSE [c EXCEPT !.errors = @ + 1]

\* image_handler.go 106: i++ and the loop condition
NextIteration(b) ==
    [b EXCEPT !.i = @ + 1, !.pc = IF b.i + 1 < b.N THEN "call" ELSE "answer"]

\* handler.go 129-141 and 663-667, image_handler.go 53-78 and 347-382: the
\* handler has no client (503), refuses the request (400), or reaches its
\* (first) upstream call
Entries == {"no client", "refused", "bound"}

BodRequest(path, n, entry) ==
    /\ bod.pc = "idle"
    /\ path \in Paths
    /\ n = 1 \/ path = "images"
    /\ bod' = CASE entry = "no client" ->
                    [bod EXCEPT !.pc = "return", !.path = path, !.status = 503]
                [] entry = "refused" ->
                    [bod EXCEPT !.pc = "return", !.path = path, !.status = 400]
                [] entry = "bound" ->
                    [bod EXCEPT !.pc = "call", !.path = path, !.N = n]
    /\ UNCHANGED bodOthers

\* handler.go 217-223 and 669-674, image_handler.go 107-112 and 396-408:
\* client.StreamGenerateContent and what follows it at once
BodGenerate(ok) ==
    /\ bod.pc = "call"
    /\ bod' = IF bod.path = "images"
                 THEN IF ok THEN [Opened(bod) EXCEPT !.pc = "extract"]
                      ELSE NextIteration([bod EXCEPT !.errors = @ + 1])
                 ELSE IF ok THEN [DeferClose(Opened(bod)) EXCEPT !.pc = "read"]
                      ELSE [bod EXCEPT !.pc = "return", !.status = 500]
    /\ UNCHANGED bodOthers

\* image_handler.go 114-122, one iteration whose call gave a body
BodExtract(extracted) ==
    /\ bod.pc = "extract"
    /\ bod' = NextIteration(CloseAfterExtract(bod, extracted))
    /\ UNCHANGED bodOthers

\* image_handler.go 125-141: the answer after the loop
BodAnswer ==
    /\ bod.pc = "answer"
    /\ bod' = [bod EXCEPT !.pc = "return",
                          !.status = IF bod.images = 0 THEN 500 ELSE 200]
    /\ UNCHANGED bodOthers

\* handler.go 229-283 and 676-737, image_handler.go 410-467: the body is read
\* and the answer written
BodRead(outcome) ==
    /\ bod.pc = "read"
    /\ outcome \in ReadOutcomes
    /\ outcome = "answered" \/ bod.path = "chat image"
    /\ bod' = [bod EXCEPT !.pc = "return",
                          !.status = IF outcome = "answered" THEN 200 ELSE 500]
    /\ UNCHANGED bodOthers

\* The handler function returns
BodReturn ==
    /\ bod.pc = "return"
    /\ bod' = [RunDeferred(bod) EXCEPT !.pc = "done"]
    /\ UNCHANGED bodOthers

(***************************************************************************)
(* Initial state and the specifications                                    *)
(***************************************************************************)
InitOver(accounts, files) ==
    /\ entries = <<>>
    /\ index = 0
    /\ readers = {}
    /\ mu = FreeMu
    /\ hs = [h \in Handlers |-> IdleHandler]
    /\ served = ZeroServed(<<>>)
    /\ calls = 0
    /\ writes = 0
    /\ envFile \in files
    /\ \E env \in accounts : accountsEnv = GodotenvLoad(env, envFile)
    /\ watcher = "starting"
    /\ events = 0
    /\ edits = 0
    /\ accountCookies = EmptyMap
    /\ pass = [p \in Passes |-> IdlePass]
    /\ passCount = 0
    /\ lastRead = EmptyMap
    /\ lastText = <<>>
    /\ lastThoughts = <<>>
    /\ dec = InitDec
    /\ sp = InitSp
    /\ log = <<>>
    /\ cl = InitCl
    /\ ReqID = 0
    /\ gen = [c \in Callers |-> IdleCall]
    /\ sent = [built |-> FALSE, start |-> 0, calls |-> 0, ids |-> <<>>, outcomes |-> <<>>]
    /\ oa = InitOa
    /\ sse = <<>>
    /\ fin = NoFin
    /\ cm = InitCm
    /\ esc = NoEsc
    /\ wire = NoWire
    /\ img = NoImg
    /\ ct = InitCt
    /\ ini = NewIni
    /\ pay = NoPay
    /\ cmp = InitCmp
    /\ bod = NoBod

Init == InitOver(AccountsValues, FileValues)

\* ACCOUNTS may also name an account once more: "a,a"
InitWorkers == InitOver(EnvValues(MaxListed + 1), FileValues)

\* One fixed credential source for the specifications that do not reconcile
InitFixedEnv ==
    /\ Init
    /\ accountsEnv = Unset
    /\ envFile = [exists |-> TRUE, accounts |-> Unset,
                  cred |-> [id \in AccountIDs |-> NoCred]]

\* A .env with both accounts, detected from its keys
InitSwap ==
    /\ Init
    /\ accountsEnv = Unset
    /\ envFile = [exists |-> TRUE, accounts |-> Unset,
                  cred |-> [id \in AccountIDs |-> ApiCred]]

\* The .env writes of SpecSwap: the cookies of account "" are written, changed or
\* not; both accounts stay
SwapFiles == {f \in WrittenFiles :
                /\ f.accounts = Unset /\ f.cred["a"] = ApiCred /\ f.cred[""] # NoCred}

NextSwap ==
    \/ \E h \in {"h1"} : NextRLock(h, "chat")
    \/ \E h \in {"h1"} : NextSelect(h)
    \/ \E h \in {"h1"} : NextRUnlock(h)
    \/ \E h \in {"h1"} : HandlerNoClient(h)
    \/ \E h \in {"h1"} : HandlerServe(h, 1, TRUE)
    \/ \E f \in SwapFiles : EnvWrite(f)
    \/ WatcherAdd
    \/ WatchReceive
    \/ WatchLoad
    \/ \E p \in Passes : PassCall(p)
    \/ \E p \in Passes : PassRead(p)
    \/ \E p \in Passes : PassSnapshot(p)
    \/ \E p \in Passes, okAt \in {0, 1} : InitWorker(p, okAt)
    \/ \E p \in Passes : PassReplaceLock(p)
    \/ \E p \in Passes : PassReplaceAppend(p)
    \/ \E p \in Passes : PassReplaceUnlock(p)
    \/ \E p \in Passes : PassStore(p)

SpecSwap == InitSwap /\ [][NextSwap]_vars

NextClient ==
    \/ \E r \in ReqIDs : GenNewClient(r)
    \/ \E c \in Callers : GenPayload(c)
    \/ \E c \in Callers : GenIncLoad(c)
    \/ \E c \in Callers : GenIncStore(c)
    \/ \E c \in Callers : GenQuery(c)
    \/ \E c \in Callers, transport \in BOOLEAN, status \in Statuses :
            GenDo(c, transport, status)

SpecClient == InitFixedEnv /\ [][NextClient]_vars

\* One goroutine calling the client: its calls follow one another
NextClientSeq ==
    \/ \E r \in ReqIDs : GenNewClient(r)
    \/ \E c \in {"g1"} : GenPayload(c)
    \/ \E c \in {"g1"} : GenIncLoad(c)
    \/ \E c \in {"g1"} : GenIncStore(c)
    \/ \E c \in {"g1"} : GenQuery(c)
    \/ \E c \in {"g1"} : \E transport \in BOOLEAN, status \in Statuses :
            GenDo(c, transport, status)

SpecClientSeq == InitFixedEnv /\ [][NextClientSeq]_vars

NextClientInit ==
    \/ \E do \in DoOutcomes, body \in Pages : ClientInit(do, body)
    \/ ClientAgain

SpecClientInit == InitFixedEnv /\ [][NextClientInit]_vars

NextPayload ==
    \/ \E prompt \in Prompts, reqID \in ReqIDs, files \in SeqsUpTo(FileDatas, MaxFiles),
          meta \in Metas : PayCall(prompt, reqID, files, meta)
    \/ PayReturn

SpecPayload == InitFixedEnv /\ [][NextPayload]_vars

NextBothModes ==
    \/ \E line \in BodyLines : CmpPlainLine(line)
    \/ CmpPlainEnd
    \/ CmpStreamBranch
    \/ CmpStreamLine
    \/ CmpStreamEnd

SpecBothModes == InitFixedEnv /\ [][NextBothModes]_vars

NextBodies ==
    \/ \E path \in Paths, n \in 1..MaxImages, entry \in Entries :
            BodRequest(path, n, entry)
    \/ \E ok \in BOOLEAN : BodGenerate(ok)
    \/ \E extracted \in 0..MaxImages : BodExtract(extracted)
    \/ BodAnswer
    \/ \E outcome \in ReadOutcomes : BodRead(outcome)
    \/ BodReturn

SpecBodies == InitFixedEnv /\ [][NextBodies]_vars

NextChat ==
    \/ \E ok \in BOOLEAN, stream \in BOOLEAN : ChatBind(ok, stream)
    \/ \E ok \in BOOLEAN : ChatGenerate(ok)
    \/ ChatBranch
    \/ \E t \in StreamTexts, th \in Thoughts : ChatCandidate(t, th)
    \/ \E kind \in {"blank", "other"} : ChatSkipLine(kind)
    \/ \E t \in StreamTexts, th \in Thoughts : ChatCutLine(t, th)
    \/ \E how \in ImageOutcomes : ChatImage(how)
    \/ ChatEnd

SpecChat == InitFixedEnv /\ [][NextChat]_vars

NextFinish ==
    \/ \E geminiResp \in GeminiResponses : FinResponse(geminiResp)
    \/ FinTransform
    \/ FinMap

SpecFinish == InitFixedEnv /\ [][NextFinish]_vars

\* The escape reversal on one text
NextEscape ==
    \/ \E s \in EscTexts, escaped \in BOOLEAN : EscInput(s, escaped)
    \/ EscUnescape

SpecEscape == InitFixedEnv /\ [][NextEscape]_vars

\* The byte-level decoder on one body
NextWire ==
    \/ \E marker \in BOOLEAN, pad \in 0..MaxPad, layout \in Layouts, text \in WireTexts :
            WireBody(marker, pad, layout, text)
    \/ WireScan
    \/ WireEnd

SpecWire == InitFixedEnv /\ [][NextWire]_vars

\* sizeToAspectRatio on one size string
NextSize ==
    \/ \E size \in Sizes : ImgSize(size)
    \/ ImgRatio

SpecSize == InitFixedEnv /\ [][NextSize]_vars

\* The count_tokens handler on one request
NextCount ==
    \/ \E ok \in BOOLEAN, messages \in SeqsUpTo(Contents, MaxCtMsgs) : CtBind(ok, messages)
    \/ CtAnswer

SpecCount == InitFixedEnv /\ [][NextCount]_vars

\* The two handlers, each on one request; the chat body holds lines of one text
NextAnswers ==
    \/ \E ok \in BOOLEAN, stream \in BOOLEAN : ChatBind(ok, stream)
    \/ \E ok \in BOOLEAN : ChatGenerate(ok)
    \/ ChatBranch
    \/ \E th \in Thoughts : ChatCandidate(<<"<">>, th)
    \/ \E how \in ImageOutcomes : ChatImage(how)
    \/ ChatEnd
    \/ \E ok \in BOOLEAN, stream \in BOOLEAN : MsgBind(ok, stream)
    \/ \E ok \in BOOLEAN : MsgGenerate(ok)
    \/ MsgStream
    \/ MsgAnswer
    \/ \E parts \in SeqsUpTo(PartValues, 1) : MsgLine(parts)
    \/ MsgFinalize
    \/ MsgEnd

SpecAnswers == InitFixedEnv /\ [][NextAnswers]_vars

NextPool ==
    \/ \E h \in Handlers, kind \in Kinds : NextRLock(h, kind)
    \/ \E h \in Handlers : NextSelect(h)
    \/ \E h \in Handlers : NextRUnlock(h)
    \/ \E h \in Handlers : HandlerNoClient(h)
    \/ \E h \in Handlers : HandlerBadBody(h)
    \/ \E h \in Handlers : \E n \in 1..MaxImages, good \in BOOLEAN : HandlerServe(h, n, good)
    \/ Clear
    \/ \E id \in AccountIDs : Add(ApiClient(id), id)
    \/ \E ids \in IDLists : \E ch \in ChangedMaps(ids) : ApiReplaceAccounts(ids, ch)

SpecPool == InitFixedEnv /\ [][NextPool]_vars

NextReconcile ==
    \/ \E f \in WrittenFiles : EnvWrite(f)
    \/ WatcherAdd
    \/ WatchReceive
    \/ WatchLoad
    \/ \E p \in Passes : PassCall(p)
    \/ \E p \in Passes : PassRead(p)
    \/ \E p \in Passes, found \in Creds \cup {NoCred} : PassBrowse(p, found)
    \/ \E p \in Passes : PassSave(p)
    \/ \E p \in Passes : PassSnapshot(p)
    \/ \E p \in Passes : \E okAt \in 0..maxRetries : InitWorker(p, okAt)
    \/ \E p \in Passes : PassReplace(p)
    \/ \E p \in Passes : PassStore(p)

SpecReconcile == Init /\ [][NextReconcile]_vars

\* The startup pass with its workers attempt by attempt
NextWorkers ==
    \/ \E p \in {"startup"} : PassCall(p)
    \/ \E p \in {"startup"} : PassRead(p)
    \/ \E p \in {"startup"}, found \in Creds \cup {NoCred} : PassBrowse(p, found)
    \/ \E p \in {"startup"} : PassSave(p)
    \/ \E p \in {"startup"} : PassSnapshot(p)
    \/ \E p \in {"startup"} : \E i \in 1..MaxAccts : AttemptStart(p, i)
    \/ \E p \in {"startup"} : \E i \in 1..MaxAccts, how \in {"ok", "err", "timeout"} :
            AttemptEnd(p, i, how)
    \/ \E p \in {"startup"} : \E i \in 1..MaxAccts : ResultSend(p, i)
    \/ \E p \in {"startup"} : PassReplace(p)
    \/ \E p \in {"startup"} : PassStore(p)

SpecWorkers == InitWorkers /\ [][NextWorkers]_vars

\* The same with its scheduling: a goroutine that can run does run, and the
\* select of an attempt ends, with the attempt's answer or with the timeout
FairWorkers ==
    /\ WF_vars(\E i \in 1..MaxAccts : AttemptStart("startup", i))
    /\ WF_vars(\E i \in 1..MaxAccts, how \in {"ok", "err", "timeout"} :
                    AttemptEnd("startup", i, how))
    /\ WF_vars(\E i \in 1..MaxAccts : ResultSend("startup", i))
    /\ WF_vars(PassReplace("startup"))
    /\ WF_vars(PassStore("startup"))

SpecWorkersFair == SpecWorkers /\ FairWorkers

NextDecode ==
    \E t \in Texts, th \in Thoughts, nf \in BOOLEAN : ProcessCandidate(t, th, nf)

SpecDecode == InitFixedEnv /\ [][NextDecode]_vars

NextFrames ==
    \E t \in Texts, th \in Thoughts : ProcessFrame(t, th)

SpecFrames == InitFixedEnv /\ [][NextFrames]_vars

\* Frames whose texts hold image placeholders, white space and other runes:
\* the texts of up to MaxLen pieces, a piece being the placeholder URL up to its
\* number, a digit, a space or a letter
PlaceholderTexts ==
    {Flat(t) : t \in SeqsUpTo({PlaceholderURL, <<"7">>, <<" ">>, <<"a">>}, MaxLen)}

NextPlaceholders ==
    \E t \in PlaceholderTexts, th \in {<<>>} : ProcessFrame(t, th)

SpecPlaceholders == InitFixedEnv /\ [][NextPlaceholders]_vars

\* Frames whose texts hold a thinking block inline: the texts of up to
\* MaxLen + 1 pieces, a piece being the opening tag, the closing tag or a
\* letter; the thought field is empty
OpenTag == Chars("<think>")
CloseTag == Chars("</think>")
InlineTexts == {Flat(t) : t \in SeqsUpTo({OpenTag, <<"a">>, CloseTag}, MaxLen + 1)}

NextInline ==
    \E t \in InlineTexts, th \in {<<>>} : ProcessFrame(t, th)

SpecInline == InitFixedEnv /\ [][NextInline]_vars

NextIndexed ==
    \E t \in Texts, th \in Thoughts, nf \in BOOLEAN : ProcessIndexed(t, th, nf)

SpecIndexed == InitFixedEnv /\ [][NextIndexed]_vars

NextClaude ==
    \/ \E parts \in SeqsUpTo(PartValues, MaxParts) : ClaudeLine(parts)
    \/ ClaudeSkipLine
    \/ ClaudeFinalize
    \/ ClaudeFinalizeAgain
    \/ ClaudeStopAgain

SpecClaude == InitFixedEnv /\ [][NextClaude]_vars


(***************************************************************************)
(* Properties                                                              *)
(***************************************************************************)
Returns == SumOver(served, 1..Len(entries))

\* C1: while the entry list stays the same list of K >= 1 entries, after M >= K
\* calls to Next(), issued by handlers in any interleaving, every entry has been
\* returned floor(M/K) or ceil(M/K) times.
C1_RoundRobinFair ==
    LET K == Len(entries)
        M == Returns
    IN (K >= 1 /\ M >= K) =>
          \A i \in 1..K : served[i] \in {M \div K, (M + K - 1) \div K}

C1_Witness ==
    /\ Len(entries) = 2
    /\ served[1] = 2
    /\ served[2] = 1

\* C2: a Next() that finds the entry list empty returns the nil client and the
\* empty account ID and leaves the cursor where it was; a chat, image or Claude
\* handler that got the nil client answers 503 with an error field and makes no
\* upstream call.
C2_EmptyPool ==
    [][\A h \in Handlers :
          /\ (hs[h].pc = "locked" /\ hs'[h].pc = "selected" /\ Len(entries) = 0) =>
                (hs'[h].client = Nil /\ hs'[h].accountID = "" /\ index' = index)
          /\ (hs[h].pc = "returned" /\ hs'[h].pc = "done" /\ hs[h].client = Nil) =>
                /\ hs[h].kind \in Kinds
                /\ hs'[h].status = 503
                /\ hs'[h].errorField
                /\ hs'[h].upstream = 0]_vars

C2_Witness ==
    /\ \A h \in Handlers :
          /\ hs[h].pc = "done"
          /\ hs[h].status = 503
    /\ hs["h1"].kind = "image"
    /\ hs["h2"].kind = "claude"
    /\ entries = <<>>
    /\ index > 0

\* C3: on a stream of frames in which the candidate's text and thought each
\* extend those of the frame before, the text deltas passed to onChunk, joined,
\* are the unescaped text of the last frame, and the thought deltas, joined, are
\* its thought.
C3_DeltasJoinToFinal ==
    dec.steps > 0 =>
        /\ dec.outText = Unescape(dec.rawText)
        /\ dec.outThoughts = dec.rawThoughts

\* C4: a candidate whose text is not longer than the last-seen text gets no
\* text delta and leaves the last-seen text as it was, and likewise for its
\* thought; with neither longer onChunk is not called, so a frame presented
\* again does not fire onChunk a second time.
C4_NoDeltaUnlessLonger ==
    [][dec'.steps = dec.steps + 1 =>
          /\ Len(dec'.rawText) <= Len(lastText) =>
                (dec'.deltaText = <<>> /\ dec'.text = <<>> /\ lastText' = lastText)
          /\ Len(dec'.rawThoughts) <= Len(lastThoughts) =>
                (dec'.deltaThoughts = <<>> /\ dec'.thought = <<>>
                    /\ lastThoughts' = lastThoughts)
          /\ (Len(dec'.rawText) <= Len(lastText)
                /\ Len(dec'.rawThoughts) <= Len(lastThoughts)) => ~dec'.fired
          /\ dec'.repeat => ~dec'.fired]_vars

C4_Witness ==
    /\ dec.steps = 2
    /\ dec.repeat
    /\ dec.rawText # <<>>
    /\ dec.rawThoughts # <<>>
    /\ ~dec.fired
    /\ lastText = dec.rawText

\* C5: the text delta of a candidate is what its text adds to the text its own
\* index presented last, and likewise for the thought, whatever the other
\* indexes presented.
C5_PerCandidateDelta ==
    dec.steps > 0 =>
        /\ dec.deltaText = Delta(dec.rawText, dec.before.text)
        /\ dec.deltaThoughts = Delta(dec.rawThoughts, dec.before.thoughts)

Starts == CountType(log, "content_block_start")
Stops == CountType(log, "content_block_stop")

\* C6: while ProcessGeminiStream runs, the content_block_stop events are as many
\* as the content_block_start events or one fewer; once it has finished (its one
\* finalize done) they are as many.
C6_BlocksBalanced ==
    cl.finalizeCalls <= 1 =>
        /\ Stops <= Starts
        /\ Starts <= Stops + 1
        /\ cl.pc = "finished" => Stops = Starts

C6_Witness ==
    /\ cl.pc = "finished"
    /\ cl.finalizeCalls = 1
    /\ Starts = 3
    /\ Stops = 3

\* C7: no message_stop is emitted before finalize; from the first finalize on,
\* whatever the number of later finalize or EmitMessageStop invocations, exactly
\* one message_stop has been emitted and MessageStopSent is set.
C7_MessageStopOnce ==
    /\ cl.pc = "streaming" =>
          (CountType(log, "message_stop") = 0 /\ ~sp.MessageStopSent)
    /\ cl.pc = "finished" =>
          (CountType(log, "message_stop") = 1 /\ sp.MessageStopSent)

C7_Witness ==
    /\ cl.finalizeCalls = 2
    /\ cl.stopCalls = 1
    /\ CountType(log, "message_stop") = 1

\* C8: a pass that reads the account IDs and hashes that the pass returning
\* before it had read goes from its reading of the recorded hashes straight to
\* its return: it starts no worker, and the entry list and the recorded hashes
\* are as they were.
C8_ReconcileIdempotent ==
    [][\A p \in Passes :
          (/\ pass[p].pc = "loaded"
           /\ pass'[p].pc # "loaded"
           /\ NewCookies(pass[p].accountIDs, pass[p].allCookies) = lastRead) =>
              /\ pass'[p].pc = "done"
              /\ pass'[p].ended = "unchanged"
              /\ entries' = entries
              /\ accountCookies' = accountCookies]_vars

C8_Witness ==
    /\ pass["watch"].pc = "done"
    /\ pass["watch"].ended = "unchanged"
    /\ pass["watch"].same
    /\ pass["startup"].pc = "done"
    /\ Len(entries) = 2

PoolIDs(ents) == {ents[i].AccountID : i \in 1..Len(ents)}

\* C9: when a pass has replaced the entry list, every account it read with the
\* recorded hash and that had an entry when the pass read the recorded hashes
\* has an entry with that same client, and the pass ran no worker for it.
C9_UnchangedUntouched ==
    \A p \in Passes :
        pass[p].pc = "store" =>
            \A id \in DOMAIN pass[p].newCookies :
                (/\ id \in DOMAIN pass[p].oldCookies
                 /\ pass[p].oldCookies[id] = pass[p].newCookies[id]
                 /\ id \in PoolIDs(pass[p].poolBefore)) =>
                    /\ id \in PoolIDs(pass[p].poolAfter)
                    /\ OldEntries(pass[p].poolAfter)[id] = OldEntries(pass[p].poolBefore)[id]
                    /\ \A i \in pass[p].toInit : pass[p].accountIDs[i] # id

\* C10: when a pass has replaced the entry list, an account whose workers all
\* failed has no entry, whether or not it had one before, and every account
\* with a successful worker has an entry with the client that worker built.
C10_FailedAbsent ==
    \A p \in Passes :
        pass[p].pc = "store" =>
            LET r == pass[p]
                changed == ChangedAccounts(r.results)
            IN /\ \A i \in r.failed :
                     (\A j \in r.toInit : r.accountIDs[j] = r.accountIDs[i] => j \in r.failed)
                        => r.accountIDs[i] \notin PoolIDs(r.poolAfter)
               /\ \A id \in DOMAIN changed :
                     \E k \in 1..Len(r.poolAfter) :
                        r.poolAfter[k] = AccountEntry(changed[id], id)

\* C11: a handler inside Next() (holding the read lock) sees the entry list as
\* it stood before the running ReplaceAccounts or as that call leaves it, never
\* the emptied or half-built list; and the list changes only in the hands of a
\* pass whose initialization workers have all finished.
C11_CompleteListSeen ==
    /\ [](\A h \in readers : entries = mu.before \/ entries = mu.after)
    /\ [][entries' # entries =>
            /\ mu'.writer \in Passes
            /\ pass[mu'.writer].finished = pass[mu'.writer].toInit
            /\ pass[mu'.writer].toInit # {}]_vars

\* A handler is inside Next() on the two-entry list a pass has just built, while
\* that pass has yet to store its hashes and the other pass is initializing
C11_Witness ==
    \E h \in Handlers, p \in Passes, q \in Passes :
        /\ hs[h].pc = "locked"
        /\ pass[p].pc = "store"
        /\ pass[q].pc = "init"
        /\ Len(entries) = 2
        /\ entries = pass[p].poolAfter
        /\ entries # mu.before

\* C12: no two passes are at the same time between reading the recorded hashes
\* (line 95) and storing the new ones (line 199).
C12_OnePassAtATime ==
    \A p \in Passes, q \in Passes :
        (/\ pass[p].pc \in {"init", "store"}
         /\ pass[q].pc \in {"init", "store"}) => p = q

\* C13: every client in the pool's entry list has completed Init, and a handler
\* that makes an upstream call makes it on a client that has completed Init.
C13_PoolClientsInitialized ==
    /\ [](\A k \in 1..Len(entries) : entries[k].Client.SNlM0e)
    /\ [][\A h \in Handlers :
            (hs[h].pc = "returned" /\ hs'[h].upstream > 0) => hs[h].client.SNlM0e]_vars

\* A handler has answered from an upstream call while the pool holds one client
\* and a worker of the pass that built the pool failed all its attempts
C13_Witness ==
    \E h \in Handlers, p \in Passes :
        /\ hs[h].pc = "done" /\ hs[h].upstream > 0
        /\ pass[p].pc = "store" /\ pass[p].failed # {}
        /\ Len(entries) = 1

Quiet == \A c \in Callers : gen[c].pc \in {"idle", "returned"}

\* C14: once the calls started on a client have all returned, its counter is
\* higher than at NewClient by the number of calls, and no two calls sent the
\* same _reqid.
C14_CounterAtomic ==
    Quiet =>
        /\ ReqID = sent.start + sent.calls
        /\ \A i \in 1..Len(sent.ids), j \in 1..Len(sent.ids) :
                sent.ids[i] = sent.ids[j] => i = j

\* C19: a call of StreamGenerateContent that has returned gave an error and no
\* body when the transport failed or the status was not 200, having closed the
\* response body it received; and gave the open body and no error exactly when
\* the status was 200.
C19_ErrorOrOpenBody ==
    \A c \in Callers :
        gen[c].pc = "returned" =>
            LET ok == gen[c].transport /\ gen[c].status = 200
                r == gen[c].ret
            IN /\ ok <=> (r.returned /\ ~r.err)
               /\ ok => r.body = "open"
               /\ ~ok => (r.err /\ ~r.returned /\ r.body # "open")
               /\ (gen[c].transport /\ gen[c].status # 200) => r.body = "closed"

\* One call returned the open body of a 200 response and another returned the
\* error of a 429 response
C19_Witness ==
    \E c \in Callers, d \in Callers :
        /\ gen[c].pc = "returned" /\ gen[c].status = 200 /\ gen[c].ret.returned
        /\ gen[d].pc = "returned" /\ gen[d].status = 429 /\ gen[d].ret.err

\* The chunks the deltas call for: per delta, in decode order, one chunk for its
\* thought if that is not empty, then one for its text if that is not empty
RECURSIVE ChunksFor(_)
ChunksFor(deltas) ==
    IF deltas = <<>> THEN <<>>
    ELSE LET d == Head(deltas)
         IN (IF d.thought # <<>>
                THEN <<Chunk({"reasoning_content", "content"}, d.thought, <<>>)>>
                ELSE <<>>)
            \o (IF d.text # <<>> THEN <<Chunk({"content"}, <<>>, d.text)>> ELSE <<>>)
            \o ChunksFor(Tail(deltas))

\* C15: the streaming answer is the role chunk, then the chunks of the deltas
\* decoded so far, and, once the body has ended, the line "data: [DONE]".
C15_StreamShape ==
    /\ (oa.stream /\ oa.pc = "parsing") =>
            sse = <<Chunk({"role"}, <<>>, <<>>)>> \o ChunksFor(oa.deltas)
    /\ (oa.stream /\ oa.pc = "done" /\ oa.status = 200) =>
            sse = <<Chunk({"role"}, <<>>, <<>>)>> \o ChunksFor(oa.deltas) \o <<DONE>>

\* A stream has ended whose deltas were a thought alone, then a text alone after
\* a candidate that gave no delta
C15_Witness ==
    /\ oa.stream /\ oa.pc = "done" /\ oa.status = 200
    /\ dec.steps = 3
    /\ Len(oa.deltas) = 2
    /\ oa.deltas[1].text = <<>> /\ oa.deltas[2].thought = <<>>
    /\ Len(sse) = 4

Types(evs) == [i \in 1..Len(evs) |-> evs[i].type]

\* C16: the finalize of ProcessGeminiStream appends content_block_stop if a block
\* is open, then message_delta, then message_stop, and nothing else; after it the
\* stream holds one message_delta and ends with message_stop.
C16_FinalizeOrder ==
    /\ [][(cl.pc = "streaming" /\ cl'.pc = "finished") =>
            /\ Len(log') >= Len(log)
            /\ SubSeq(log', 1, Len(log)) = log
            /\ Types(SubSeq(log', Len(log) + 1, Len(log'))) =
                 (IF sp.inThinkingMode \/ sp.inTextMode
                     THEN <<"content_block_stop">> ELSE <<>>)
                 \o <<"message_delta", "message_stop">>]_vars
    /\ [](cl.finalizeCalls = 1 =>
            /\ CountType(log, "message_delta") = 1
            /\ log[Len(log)].type = "message_stop")

\* The input ended with a text block open after a thinking block: the stream ends
\* content_block_stop, message_delta, message_stop
C16_Witness ==
    /\ cl.pc = "finished"
    /\ cl.finalizeCalls = 1
    /\ Starts = 2
    /\ Len(log) >= 3
    /\ Types(SubSeq(log, Len(log) - 2, Len(log))) =
          <<"content_block_stop", "message_delta", "message_stop">>

HasCall == fin.candidates # <<>> /\ fin.candidates[1].content
           /\ \E k \in 1..Len(fin.candidates[1].Parts) : fin.candidates[1].Parts[k].call

\* C17: MapFinishReason and TransformResponse give end_turn for STOP and
\* MAX_TOKENS and stop_sequence for SAFETY and RECITATION (TransformResponse: when
\* no part is a function call), and TransformResponse gives tool_use whenever a
\* part of the candidate is a function call.
C17_FinishReasonMapping ==
    LET reason == IF fin.candidates = <<>> THEN "" ELSE fin.candidates[1].FinishReason
    IN /\ fin.mapped =>
            /\ reason \in {"STOP", "MAX_TOKENS"} => fin.reason = "end_turn"
            /\ reason \in {"SAFETY", "RECITATION"} => fin.reason = "stop_sequence"
       /\ fin.transformed =>
            /\ (reason \in {"STOP", "MAX_TOKENS"} /\ ~HasCall) => fin.StopReason = "end_turn"
            /\ (reason \in {"SAFETY", "RECITATION"} /\ ~HasCall) =>
                    fin.StopReason = "stop_sequence"
            /\ HasCall => fin.StopReason = "tool_use"

\* C18: reading a line that is blank or is not a JSON array writes no chunk,
\* passes no delta, leaves lastText and lastThoughts as they were, and the
\* handler goes on parsing.
C18_BadLineSkipped ==
    [][(dec'.steps = dec.steps + 1 /\ oa'.line \in BadLines) =>
            /\ sse' = sse
            /\ oa'.deltas = oa.deltas
            /\ lastText' = lastText
            /\ lastThoughts' = lastThoughts
            /\ oa'.pc = "parsing"]_vars

\* C20: in both handlers a body that is not accepted is answered 400 with no
\* upstream call, a failed upstream call is answered 500, and in both cases
\* nothing has been written to the response as a stream event.
C20_ErrorsBeforeEvents ==
    /\ ~oa.bodyOK => (oa.pc = "done" /\ oa.status = 400 /\ oa.upstream = 0 /\ sse = <<>>)
    /\ ~oa.callOK => (oa.pc = "done" /\ oa.status = 500 /\ sse = <<>>)
    /\ ~cm.bodyOK => (cm.pc = "done" /\ cm.status = 400 /\ cm.upstream = 0 /\ log = <<>>)
    /\ ~cm.callOK => (cm.pc = "done" /\ cm.status = 500 /\ log = <<>>)

\* The chat handler has answered a failed upstream call and the Claude handler
\* a body that did not bind
C20_Witness ==
    /\ oa.pc = "done" /\ ~oa.callOK /\ oa.status = 500 /\ oa.upstream = 1
    /\ cm.pc = "done" /\ ~cm.bodyOK /\ cm.status = 400

\* C21: the escape reversal undoes the upstream's escaping, Unescape(Escape(s)) = s
\* for every string s over the guarded characters, the backslash and ordinary
\* characters, and it leaves a text that holds no escape sequence as it is.
HasEscapeSeq(s) ==
    \E i \in 1..(Len(s) - 1) : s[i] = "\\" /\ s[i + 1] \in Guarded

C21_EscapeRoundTrip ==
    esc.pc = "done" =>
        /\ esc.escaped => esc.out = esc.src
        /\ ~HasEscapeSeq(esc.text) => esc.out = esc.text

\* an escaped text with a backslash of its own and two guarded characters came back
C21_Witness ==
    /\ esc.pc = "done"
    /\ esc.escaped
    /\ esc.src = <<"\\", "<", "]">>
    /\ esc.text = <<"\\", "\\", "<", "\\", "]">>
    /\ esc.out = esc.src

\* C22: the body whose first line is the marker and whose second line is the
\* frame [[null,null,S]], S the string encoding of
\* [null,null,null,[[["Hi",0,null,null,null,null,null]]]], is decoded to exactly
\* one delta, with text "Hi" and no thought.
ScenarioBody ==
    /\ wire.marker
    /\ wire.pad = 3
    /\ wire.layout = "flat"
    /\ wire.text = <<"H", "i">>

C22_ScenarioDecoded ==
    (wire.pc = "done" /\ ScenarioBody) =>
        wire.deltas = <<[text |-> <<"H", "i">>, thought |-> <<>>]>>

\* C23: sizeToAspectRatio gives every size of the table its listed ratio
\* ("1024x1024" gives "1:1", "1792x1024" gives "16:9"), gives "1:1" for every
\* other string, "999x999" and the empty string among them, and its result is
\* always one of the six ratios.
Ratios == {"1:1", "4:3", "3:4", "16:9", "9:16", "21:9"}

C23_SizeToAspectRatio ==
    img.pc = "done" =>
        /\ \A e \in aspectRatioMap : img.size = e.size => img.ratio = e.ratio
        /\ img.size = Size(1024, 1024) => img.ratio = "1:1"
        /\ img.size = Size(1792, 1024) => img.ratio = "16:9"
        /\ (\A e \in aspectRatioMap : img.size # e.size) => img.ratio = "1:1"
        /\ img.size \in {Size(999, 999), <<>>} => img.ratio = "1:1"
        /\ img.ratio \in Ratios

\* the size "1792x1024" was given and "16:9" came back
C23_Witness ==
    /\ img.pc = "done"
    /\ img.size = <<"1", "7", "9", "2", "x", "1", "0", "2", "4">>
    /\ img.ratio = "16:9"

\* C24: the input_tokens of the answer to a valid count_tokens request is the
\* number of characters of the text of all its messages, divided by 4.
RECURSIVE BlockChars(_)
BlockChars(blocks) ==
    IF blocks = <<>> THEN 0
    ELSE (IF Head(blocks).Type = "text" THEN Len(Head(blocks).Text) ELSE 0)
         + BlockChars(Tail(blocks))

RECURSIVE TotalChars(_)
TotalChars(messages) ==
    IF messages = <<>> THEN 0
    ELSE (IF Head(messages).str THEN Len(Head(messages).text)
          ELSE BlockChars(Head(messages).blocks))
         + TotalChars(Tail(messages))

C24_TokensAreCharsDiv4 ==
    (ct.pc = "done" /\ ct.status = 200) =>
        ct.input_tokens = TotalChars(ct.messages) \div 4

\* C25: after ReplaceAccounts the entries stand in the order of the account IDs
\* passed to it, whatever the order in which the workers finished; no account ID
\* has two entries; and exactly the IDs with a newly initialized client or an
\* entry before the call have one.
EntryIDs(ents) == [k \in 1..Len(ents) |-> ents[k].AccountID]

RECURSIVE KeepIDs(_, _)
KeepIDs(ids, S) ==
    IF ids = <<>> THEN <<>>
    ELSE (IF Head(ids) \in S THEN <<Head(ids)>> ELSE <<>>) \o KeepIDs(Tail(ids), S)

InPassedOrder(r) ==
    EntryIDs(r.poolAfter) =
        KeepIDs(r.accountIDs,
                DOMAIN ChangedAccounts(r.results) \cup PoolIDs(r.poolBefore))

EachOnce(ents) ==
    \A j, k \in 1..Len(ents) : ents[j].AccountID = ents[k].AccountID => j = k

C25_OrderKeptEachOnce ==
    \A p \in Passes :
        pass[p].pc = "store" =>
            /\ InPassedOrder(pass[p])
            /\ EachOnce(pass[p].poolAfter)

\* C26: in a pass every account to initialize gets at least 1 and at most 3
\* attempts; a failed or timed-out attempt is followed by another exactly when
\* fewer than 3 have been made; no attempt starts for an account after one of its
\* attempts succeeded; and the account adds at most one client to the results.
WorkersOf(r, id) == {i \in r.toInit : r.accountIDs[i] = id}

AttemptsOf(r, id) == SumOver([i \in WorkersOf(r, id) |-> Len(Tries(r, i))], WorkersOf(r, id))

ClientsOf(r, id) == Cardinality({k \in 1..Len(r.results) : r.results[k].accountID = id})

\* what holds of the one worker i
WorkerRetries(r, i) ==
    LET t == Tries(r, i)
    IN /\ Len(t) <= maxRetries
       /\ i \in r.finished => Len(t) >= 1
       /\ \A k \in 1..(Len(t) - 1) : t[k] \in {"err", "timeout"}
       /\ i \in r.finished => (t[Len(t)] = "ok" \/ Len(t) = maxRetries)

C26_AttemptsPerAccount ==
    \A p \in Passes :
        pass[p].pc \in {"init", "store"} =>
            LET r == pass[p]
            IN /\ \A i \in r.toInit : WorkerRetries(r, i)
               /\ \A id \in Range(r.accountIDs) :
                    /\ AttemptsOf(r, id) <= maxRetries
                    /\ ClientsOf(r, id) <= 1
                    /\ (r.pc = "store" /\ WorkersOf(r, id) # {}) => AttemptsOf(r, id) >= 1
                    /\ \A i, j \in WorkersOf(r, id) :
                          (Tries(r, i) # <<>> /\ Tries(r, i)[Len(Tries(r, i))] = "ok") =>
                              ~Underway(r, j)

\* C27: a pass that found a new or changed account goes on to ReplaceAccounts
\* and stores the new hashes, whether its attempts succeed, fail or hang.
C27_PassCompletes ==
    (pass["startup"].pc = "init") ~> (pass["startup"].ended = "stored")

\* the pass is at ReplaceAccounts' return after every attempt of its two
\* workers was left behind at the timeout
C27_Witness ==
    /\ pass["startup"].pc = "store"
    /\ Cardinality(pass["startup"].toInit) = 2
    /\ \A i \in pass["startup"].toInit :
            Tries(pass["startup"], i) = <<"timeout", "timeout", "timeout">>
    /\ pass["startup"].results = <<>>

\* C28: every StreamGenerateContent call raises the client's ReqID by exactly 1,
\* whether the upstream call succeeds, answers another status than 200 or fails
\* in transport; so the _reqid values of calls that follow one another rise
\* strictly, one by one, from the seed NewClient chose.
C28_CounterStepsByOne ==
    /\ \A k \in 1..Len(sent.ids) : sent.ids[k] = sent.start + k
    /\ \A j, k \in 1..Len(sent.ids) : j < k => sent.ids[j] < sent.ids[k]
    /\ (\A c \in Callers : gen[c].pc \in {"idle", "returned"}) =>
            ReqID = sent.start + sent.calls

\* two calls have returned, the first failed in transport and the second was
\* answered 500, and the counter stands two above the seed
C28_Witness ==
    /\ sent.outcomes = <<"transport", "status">>
    /\ sent.ids = <<sent.start + 1, sent.start + 2>>
    /\ gen["g1"].pc = "returned"
    /\ ReqID = sent.start + 2

\* C29: a part with text whose kind (text or thinking) differs from the open
\* block's makes the processor emit content_block_stop with the index i of the
\* open block, content_block_start of the new kind with index i + 1 and
\* content_block_delta with index i + 1, in this order; a part of the open
\* block's kind makes it emit one content_block_delta with the index unchanged;
\* and BlockIndex is the number of content_block_stop events emitted.
Open(s) == IF s.inThinkingMode THEN "thinking" ELSE IF s.inTextMode THEN "text" ELSE "none"

KindOf(part) == IF part.thought THEN "thinking" ELSE "text"

DeltaEvent(i, kind, text) ==
    Event("content_block_delta", i,
          IF kind = "thinking" THEN "thinking_delta" ELSE "text_delta", text)

\* the events the claim asks for, part by part; the first part opens block i
RECURSIVE BlockEvents(_, _, _)
BlockEvents(open, i, parts) ==
    IF parts = <<>> THEN <<>>
    ELSE LET kind == KindOf(Head(parts))
             d == DeltaEvent(i, kind, PartText(Head(parts).text))
             d1 == DeltaEvent(i + 1, kind, PartText(Head(parts).text))
         IN IF Head(parts).text = <<>> THEN BlockEvents(open, i, Tail(parts))
            ELSE IF open = kind THEN <<d>> \o BlockEvents(kind, i, Tail(parts))
            ELSE IF open = "none"
                 THEN <<Event("content_block_start", i, kind, <<>>), d>>
                      \o BlockEvents(kind, i, Tail(parts))
            ELSE <<Event("content_block_stop", i, "", <<>>),
                   Event("content_block_start", i + 1, kind, <<>>), d1>>
                 \o BlockEvents(kind, i + 1, Tail(parts))

NotMessageStart(ev) == ev.type # "message_start"

C29_KindSwitch ==
    /\ [][(cl.pc = "streaming" /\ cl'.pc = "streaming" /\ cl'.lines = cl.lines + 1) =>
            /\ Len(log') >= Len(log)
            /\ SubSeq(log', 1, Len(log)) = log
            /\ SelectSeq(SubSeq(log', Len(log) + 1, Len(log')), NotMessageStart) =
                  BlockEvents(Open(sp), sp.BlockIndex, cl'.parts)]_vars
    /\ [](sp.BlockIndex = Stops)

\* a thinking part arrived while text block 1 was open: the stream ends with
\* content_block_stop 1, content_block_start 2 (thinking), content_block_delta 2
C29_Witness ==
    /\ cl.pc = "streaming"
    /\ Len(cl.parts) = 1
    /\ cl.parts[1].thought
    /\ Len(log) >= 4
    /\ log[Len(log) - 3] = DeltaEvent(1, "text", <<"<", "&", "l", "t", ";">>)
    /\ SubSeq(log, Len(log) - 2, Len(log)) =
          << Event("content_block_stop", 1, "", <<>>),
             Event("content_block_start", 2, "thinking", <<>>),
             DeltaEvent(2, "thinking", <<"<", "&", "l", "t", ";">>) >>
    /\ sp.BlockIndex = 2

\* C30: the thinking mode and the text mode are never both set, and every
\* content_block_delta stands in an open block: after that block's
\* content_block_start with nothing but deltas between, with the block's index,
\* and text_delta in a text block, thinking_delta in a thinking block.
InOpenBlock(evs, k) ==
    \E j \in 1..(k - 1) :
        /\ evs[j].type = "content_block_start"
        /\ \A m \in (j + 1)..(k - 1) : evs[m].type = "content_block_delta"
        /\ evs[k].index = evs[j].index
        /\ evs[k].kind = (IF evs[j].kind = "thinking" THEN "thinking_delta" ELSE "text_delta")
        /\ evs[j].kind \in {"text", "thinking"}

C30_OneOpenBlock ==
    /\ ~(sp.inThinkingMode /\ sp.inTextMode)
    /\ \A k \in 1..Len(log) :
          log[k].type = "content_block_delta" => InOpenBlock(log, k)

\* a thinking_delta of block 1, written after a text block was closed, while
\* only the thinking mode is set
C30_Witness ==
    /\ cl.pc = "streaming"
    /\ sp.inThinkingMode /\ ~sp.inTextMode
    /\ log # <<>>
    /\ log[Len(log)].type = "content_block_delta"
    /\ log[Len(log)].kind = "thinking_delta"
    /\ log[Len(log)].index = 1
    /\ \E j \in 1..Len(log) : log[j] = Event("content_block_start", 0, "text", <<>>)

\* C31: in a stream written by ProcessGeminiStream message_start occurs at most
\* once and stands before every content_block_start, content_block_delta,
\* message_delta and message_stop; a stream without message_start holds no
\* message_delta and no message_stop.
AfterMessageStart(evs, k) == \E j \in 1..(k - 1) : evs[j].type = "message_start"

C31_MessageStartFirst ==
    /\ CountType(log, "message_start") <= 1
    /\ \A k \in 1..Len(log) :
          log[k].type \in {"content_block_start", "content_block_delta",
                           "message_delta", "message_stop"}
             => AfterMessageStart(log, k)
    /\ CountType(log, "message_start") = 0
          => CountType(log, "message_delta") = 0 /\ CountType(log, "message_stop") = 0

\* C32: Init returns an error and leaves the token and the build label unset
\* when the landing page is not answered with 200 or holds no anti-forgery
\* token; with the token and no build label in the page it succeeds and the
\* build label is the hardcoded one; after a successful Init the build label is
\* not empty.
HasField(body, key) == FindStringSubmatch(body, key).found

C32_InitTokenAndLabel ==
    ini.pc = "returned" =>
        /\ (ini.do.StatusCode # 200 \/ ~HasField(ini.body, "SNlM0e"))
              => ini.err # "" /\ ini.SNlM0e = <<>> /\ ini.VersionBL = <<>>
        /\ (ini.do.StatusCode = 200 /\ HasField(ini.body, "SNlM0e")
              /\ ~HasField(ini.body, "bl") /\ ~HasField(ini.body, "data-bl"))
              => ini.err = "" /\ ini.VersionBL = FallbackBL
        /\ ini.err = "" => ini.VersionBL # <<>>

\* Init succeeded on a page with a token and an empty "bl" field: the label is
\* the hardcoded one
C32_Witness ==
    /\ ini.pc = "returned"
    /\ ini.do.StatusCode = 200
    /\ ini.err = ""
    /\ ini.SNlM0e = <<"v">>
    /\ \E k \in 1..Len(ini.body) : ini.body[k] = [key |-> "bl", val |-> <<>>]
    /\ ini.VersionBL = FallbackBL

\* C33: BuildGeneratePayload returns the text of [null, S, null, null], where S
\* is the text of the 8 items [message, null, metadata, null, null, null, null, 1],
\* message is [prompt, 0, null, imageList, null, null, null], metadata is
\* [CID, RID, RCID] when metadata is given and null otherwise, and imageList
\* holds one [[URL, 1], FileName] per file, in the order of the files.
ImageList(files) ==
    JArr([i \in 1..Len(files) |->
            JArr(<<JArr(<<JStr(files[i].URL), JNum(<<"1">>)>>), JStr(files[i].FileName)>>)])

MessageTuple(prompt, files) ==
    JArr(<<JStr(prompt), JNum(<<"0">>), JNull, ImageList(files), JNull, JNull, JNull>>)

WrappingTuple(prompt, files, meta) ==
    JArr(<<MessageTuple(prompt, files), JNull,
           IF meta.nil THEN JNull
           ELSE JArr(<<JStr(meta.CID), JStr(meta.RID), JStr(meta.RCID)>>),
           JNull, JNull, JNull, JNull, JNum(<<"1">>)>>)

C33_PayloadShape ==
    pay.pc = "returned" =>
        LET envelope == Read(pay.out)
        IN /\ envelope.t = "arr"
           /\ Len(envelope.a) = 4
           /\ envelope.a[1] = JNull /\ envelope.a[3] = JNull /\ envelope.a[4] = JNull
           /\ envelope.a[2].t = "str"
           /\ Read(envelope.a[2].s) = WrappingTuple(pay.prompt, pay.files, pay.meta)
           /\ Enc(Read(envelope.a[2].s)) = envelope.a[2].s

\* a call with two files and metadata has returned
C33_Witness ==
    /\ pay.pc = "returned"
    /\ Len(pay.files) = 2
    /\ pay.files[1] # pay.files[2]
    /\ ~pay.meta.nil
    /\ pay.prompt = <<"\"">>
    /\ At(Read(At(Read(pay.out), <<1>>).s), <<0, 3, 1, 1>>) = JStr(pay.files[2].FileName)

\* C34: whatever the frames an accumulated text with image placeholders arrives
\* in, no text delta passed on holds a placeholder, and the deltas passed on,
\* joined, are the accumulated text without its placeholders.
HoldsPlaceholder(s) == \E i \in 1..Len(s) : PlaceholderMatch(Drop(s, i - 1)) > 0

C34_PlaceholdersRemoved ==
    (dec.steps > 0 /\ HoldsPlaceholder(dec.rawText)) =>
        /\ ~HoldsPlaceholder(dec.text)
        /\ dec.outText = filterImagePlaceholders(dec.rawText)

\* C35: when the thought field of a candidate is empty and its text holds one
\* thinking block between the opening and the closing tag, the decoder passes
\* the block's content on as thought and the text it passes on holds neither
\* the block nor its tags.
Positions(s, tag) == {i \in 1..Len(s) : IsPrefix(tag, Drop(s, i - 1))}

OneInlineBlock(s) ==
    /\ Cardinality(Positions(s, OpenTag)) = 1
    /\ Cardinality(Positions(s, CloseTag)) = 1
    /\ \A i \in Positions(s, OpenTag), j \in Positions(s, CloseTag) : i < j

InlineThought(s) ==
    LET i == CHOOSE k \in Positions(s, OpenTag) : TRUE
        j == CHOOSE k \in Positions(s, CloseTag) : TRUE
    IN SubSeq(s, i + Len(OpenTag), j - 1)

WithoutInlineBlock(s) ==
    LET i == CHOOSE k \in Positions(s, OpenTag) : TRUE
        j == CHOOSE k \in Positions(s, CloseTag) : TRUE
    IN SubSeq(s, 1, i - 1) \o Drop(s, j + Len(CloseTag) - 1)

C35_InlineThinkingSplit ==
    (dec.steps > 0 /\ dec.rawThoughts = <<>> /\ OneInlineBlock(dec.rawText)) =>
        /\ dec.outThoughts = InlineThought(dec.rawText)
        /\ dec.outText = WithoutInlineBlock(dec.rawText)

\* C36: once a reconciliation pass has returned without an error, the pool holds
\* no entry of an account that the pass did not read from the credential
\* source, also when the pass read the same credentials as the pass before it
\* less one account.
NoPassRuns == \A p \in Passes : pass[p].pc \in {"idle", "done"}

C36_RemovedAccountsLeave ==
    (NoPassRuns /\ \E p \in Passes : pass[p].ended \in {"unchanged", "stored"})
        => PoolIDs(entries) \subseteq DOMAIN lastRead

\* C37: a pass that returns without an error leaves the hash of every account
\* it read in the recorded hashes, the accounts whose every attempt failed
\* included; a pass that then reads the same credentials for such an account
\* starts no worker for it; and such an account gets no entry in the pool while
\* the credential source still holds the credentials the pass gave up on.
GivenUpWith(id, hash) ==
    \E p \in Passes :
        /\ pass[p].pc = "done"
        /\ id \in DOMAIN pass[p].gaveUp
        /\ pass[p].gaveUp[id] = hash

C37_GivenUpStaysOut ==
    [][/\ \A p \in Passes :
            (/\ pass[p].pc \in {"loaded", "store"}
             /\ pass'[p].pc = "done"
             /\ pass'[p].ended \in {"unchanged", "stored"}) =>
                \A i \in 1..Len(pass[p].accountIDs) :
                    /\ pass[p].accountIDs[i] \in DOMAIN accountCookies'
                    /\ accountCookies'[pass[p].accountIDs[i]] =
                          NewCookies(pass[p].accountIDs, pass[p].allCookies)[pass[p].accountIDs[i]]
       /\ \A q \in Passes :
            (pass[q].pc = "loaded" /\ pass'[q].pc = "init") =>
                \A i \in pass'[q].toInit :
                    ~GivenUpWith(pass[q].accountIDs[i], cookieHash(pass[q].allCookies[i]))
       /\ \A id \in AccountIDs :
            (id \notin PoolIDs(entries) /\ id \in PoolIDs(entries')) =>
                ~GivenUpWith(id, cookieHash(envFile.cred[id]))]_vars

\* C38: whatever calls of Next, ReplaceAccounts, Add and Clear came before, the
\* cursor of a non-empty pool points into the entry list, and a handler inside
\* Next() holds either the nil client with the empty ID, the list being empty, or
\* an entry of the list as it is; ReplaceAccounts leaves the cursor where it was.
C38_NextStaysInList ==
    /\ Len(entries) > 0 => SlotOf(index, Len(entries)) \in 1..Len(entries)
    /\ \A h \in Handlers :
          hs[h].pc = "selected" =>
              IF hs[h].client = Nil
                 THEN hs[h].accountID = "" /\ entries = <<>>
                 ELSE \E k \in 1..Len(entries) :
                         entries[k] = AccountEntry(hs[h].client, hs[h].accountID)

\* a handler is inside Next() with the only entry of a list that ReplaceAccounts
\* left when the cursor stood at 2, beyond the list
C38_Witness ==
    /\ Len(entries) = 1
    /\ index = 3
    /\ served = <<1>>
    /\ \E h \in Handlers :
          /\ hs[h].pc = "selected"
          /\ entries[1] = AccountEntry(hs[h].client, hs[h].accountID)

\* The content and the reasoning_content of every chunk written, joined
StreamedContent == Flat([i \in 1..Len(cmp.w) |-> cmp.w[i].content])
StreamedReasoning == Flat([i \in 1..Len(cmp.w) |-> cmp.w[i].reasoning_content])

\* C39: for the same upstream body, the content of the non-streaming answer is
\* the content of all chunks of the streaming answer joined, and its
\* reasoning_content is all streamed reasoning_content joined.
C39_SameContent ==
    cmp.pc = "done" =>
        /\ cmp.message.content = StreamedContent
        /\ cmp.message.reasoning_content = StreamedReasoning

\* both answers given on a body of two lines, each of which adds text and thought
C39_Witness ==
    /\ cmp.pc = "done"
    /\ Cardinality({i \in 1..Len(cmp.w) : cmp.w[i].content # <<>>}) >= 2
    /\ Cardinality({i \in 1..Len(cmp.w) : cmp.w[i].reasoning_content # <<>>}) >= 2
    /\ Len(cmp.message.content) >= 2

\* C40: every body returned by a successful generation call is closed by the
\* handler exactly once before the handler returns, on every path: never
\* twice, once when the handler has returned, and in the image loop before the
\* next iteration begins.
C40_BodiesClosedOnce ==
    /\ \A k \in 1..Len(bod.bodies) : bod.bodies[k] <= 1
    /\ bod.pc = "done" => \A k \in 1..Len(bod.bodies) : bod.bodies[k] = 1
    /\ bod.path = "images" /\ bod.pc \in {"call", "answer"} =>
            \A k \in 1..Len(bod.bodies) : bod.bodies[k] = 1

\* the image handler has returned after two iterations whose calls gave a body,
\* one with an image and one without
C40_Witness ==
    /\ bod.pc = "done"
    /\ bod.path = "images"
    /\ Len(bod.bodies) = 2
    /\ bod.images > 0
    /\ bod.errors = 1

====
